---- MODULE Spec2Model ----
(***************************************************************************)
(* A model of the JavaScript side of the Testoria API test framework:     *)
(*   - BaseApiClient  (core/clients/base_api_client.js)                   *)
(*   - ConfigLoader   (env_loader.js, kept in scripts/run_tests.sh)        *)
(*   - ApiAssertions  (core/assertions/js_assertions.js)                  *)
(*   - AllureReporter (core/reporting/allure_reporter.js)                 *)
(* Header sets, configuration documents and responses are functions and   *)
(* records; URLs and configuration strings are sequences of one-character *)
(* strings so that the regular expressions of the code can be modelled    *)
(* character by character.                                                *)
(***************************************************************************)
EXTENDS Integers, Sequences, FiniteSets, TLC

VARIABLES
  \* ---- BaseApiClient ----
  headers,          \* this.headers: the client's default header set
  instanceHeaders,  \* client.defaults.headers: top-level headers given to axios.create
  commonHeaders,    \* client.defaults.headers.common (only the keys the client writes)
  lastResponse,     \* this.lastResponse
  calls,            \* the verb calls of the client, by call slot
  preSetHeaders,    \* history: this.headers as it was before the last setAuthorization
  roundTrip,        \* history: "set" after setAuthorization, "setclear" after a
                    \*          clearAuthorization that directly follows it
  authOp,           \* history: the last authorization operation and its arguments
  lastIssued,       \* history: the call slot of the request issued last
  lastCompleted,    \* history: the call slot of the request that completed last
                    \*          and the response it completed with
  lastRead          \* history: the last getResponse... call and how it ended

clientVars == <<headers, instanceHeaders, commonHeaders, lastResponse, calls,
                preSetHeaders, roundTrip, authOp, lastIssued, lastCompleted, lastRead>>

VARIABLES
  \* ---- BaseApiClient: URLs ----
  baseUrlArg,       \* history: the baseUrl argument of the constructor
  baseUrl,          \* this.baseUrl
  endpoint,         \* history: the endpoint of the last _buildUrl
  url,              \* history: the result of the last _buildUrl
  urlBuilt          \* history: whether _buildUrl has been called

urlVars == <<baseUrlArg, baseUrl, endpoint, url, urlBuilt>>

VARIABLES
  \* ---- ConfigLoader ----
  configFile,       \* the file at configPath: missing, malformed or a JSON document
  processEnv,       \* process.env
  _config,          \* this._config
  firstLoaded,      \* history: what the first successful load returned
  loadedFrom,       \* history: the parsed document of that load and the variables
                    \*          of process.env it looked up
  lastCall          \* history: the last call of the loader and how it ended

configVars == <<configFile, processEnv, _config, firstLoaded, loadedFrom, lastCall>>

VARIABLES
  \* ---- ApiAssertions ----
  response,         \* the response object an assertion is given
  assertion         \* history: the last assertion called and how it ended

assertVars == <<response, assertion>>

VARIABLES
  \* ---- AllureReporter ----
  enabled,          \* this.enabled
  currentTest,      \* this.currentTest
  currentExecutable,\* this.currentExecutable
  results,          \* the test results given to runtime.writeTest, in order
  attachments,      \* the attachments given to runtime.writeAttachment, in order
  callerHeaders,    \* history: the caller's headers object before and after the
                    \*          last addApiRequest / addApiResponse, and the header
                    \*          text that call gave to the sink
  testLog           \* history: what was started, added and written since the
                    \*          last startTest

reporterVars == <<enabled, currentTest, currentExecutable, results, attachments,
                  callerHeaders, testLog>>

VARIABLES
  \* ---- run_tests.sh ----
  argv,             \* "$@": the arguments not yet shifted away
  LANGUAGE,         \* the shell variables of the script
  TEST_TYPE,
  ENV,
  ENVIRONMENT,      \* the exported variable the suites read
  mvnw,             \* what ./mvnw clean test does when it is run
  testDirs,         \* the languages whose tests/${TEST_TYPE}_tests/<language> exists
  scriptPc,         \* where the script is
  exitStatus,       \* the exit status of the script, -1 while it runs
  suites,           \* history: the suites started, with ENVIRONMENT at that moment
  commandLine       \* history: the arguments the script was started with

runVars == <<argv, LANGUAGE, TEST_TYPE, ENV, ENVIRONMENT, mvnw, testDirs, scriptPc,
             exitStatus, suites, commandLine>>

VARIABLES
  \* ---- EnvLoader (Java) ----
  javaEnv,          \* System.getenv()
  javaFile,         \* the file at configPath: missing, or the strings of its document
  javaConfig,       \* this.config: null, or the processed strings
  javaCall          \* history: the last call of the loader and how it ended

javaLoaderVars == <<javaEnv, javaFile, javaConfig, javaCall>>

VARIABLES
  \* ---- BaseApiClient (Java) ----
  requestSpec,      \* this.requestSpec: the headers, parameters and body it holds
  javaAuthOp,       \* history: the last authorization operation
  javaSent          \* history: the last request sent, what the call was given and
                    \*          requestSpec before and after the call

javaClientVars == <<requestSpec, javaAuthOp, javaSent>>

VARIABLES
  \* ---- retryOnFailure (JavaScript and Java) ----
  retryLang,        \* which helper runs: "js" or "java"
  retryArgs,        \* the arguments retries, delay and backoff
  retryCounter,       \* the local variables of the helper
  currentDelay,
  retryPc,          \* where the helper is
  funcCalls,        \* history: how each call of func ended, in order
  retryEnd          \* history: how the helper ended and with what

retryVars == <<retryLang, retryArgs, retryCounter, currentDelay, retryPc, funcCalls, retryEnd>>

\* the components outside the JavaScript core
restVars == <<runVars, javaLoaderVars, javaClientVars, retryVars>>

vars == <<clientVars, urlVars, configVars, assertVars, reporterVars, restVars>>

\* the variables the operations of one component leave alone
exceptClient == <<urlVars, configVars, assertVars, reporterVars, restVars>>
exceptUrl == <<clientVars, configVars, assertVars, reporterVars, restVars>>
exceptConfig == <<clientVars, urlVars, assertVars, reporterVars, restVars>>
exceptAssert == <<clientVars, urlVars, configVars, reporterVars, restVars>>
exceptReporter == <<clientVars, urlVars, configVars, assertVars, restVars>>
coreVars == <<clientVars, urlVars, configVars, assertVars, reporterVars>>
exceptRun == <<coreVars, javaLoaderVars, javaClientVars, retryVars>>
exceptJavaLoader == <<coreVars, runVars, javaClientVars, retryVars>>
exceptJavaClient == <<coreVars, runVars, javaLoaderVars, retryVars>>
exceptRetry == <<coreVars, runVars, javaLoaderVars, javaClientVars>>

----------------------------------------------------------------------------
(* Header sets: JavaScript objects used as string-keyed maps.              *)

NoHeaders == [k \in {} |-> ""]

\* obj[k] = v
SetKey(h, k, v) == [x \in (DOMAIN h) \cup {k} |-> IF x = k THEN v ELSE h[x]]

\* delete obj[k]
DeleteKey(h, k) == [x \in (DOMAIN h) \ {k} |-> h[x]]

\* { ...a, ...b }: the keys of both, b's value where both have the key
Spread(a, b) == [x \in (DOMAIN a) \cup (DOMAIN b) |-> IF x \in DOMAIN b THEN b[x] ELSE a[x]]

\* `${authType} ${token}`
AuthorizationValue(authType, token) == authType \o " " \o token

----------------------------------------------------------------------------
(* Inputs of the client model.                                             *)

\* header sets a client is constructed with
InitialHeaderSets ==
  { NoHeaders,
    [Accept |-> "application/json"],
    [Authorization |-> "Bearer t0"],
    [Accept |-> "application/json", Authorization |-> "Bearer t0"] }

\* header sets passed with one verb call
PerCallHeaderSets ==
  { NoHeaders,
    [Accept |-> "text/plain"],
    [Authorization |-> "Basic p"] }

AuthTypes == {"Bearer"}
Tokens == {"t1"}

CallIds == {"c1", "c2"}

\* a test that awaits each call before it issues the next uses one slot
AwaitedCalls == {"c1"}

\* environments of core/config/config.json and their retry_attempts
Environments == {"dev", "test", "staging", "prod"}
RetryAttempts == [dev |-> 3, test |-> 3, staging |-> 2, prod |-> 1]

\* getRetrySettings(env).attempts: envConfig.retry_attempts || 0
getRetryAttempts(env) == IF RetryAttempts[env] # 0 THEN RetryAttempts[env] ELSE 0

\* answers of the server (status of a response) and transport failures
\* (error.code of an error that carries no response)
Statuses == {200, 404, 500}
TransportCodes == {"ECONNRESET", "ECONNABORTED", "ENOTFOUND"}

Body(status) ==
  CASE status = 200 -> "ok"
    [] status = 404 -> "not found"
    [] status = 500 -> "server error"
    [] OTHER -> ""

\* this.lastResponse = null / error.response of an error without a response
Null == [status |-> 0, data |-> "null"]
Undefined == [status |-> 0, data |-> "undefined"]
Response(status) == [status |-> status, data |-> Body(status)]
Falsy(r) == r = Null \/ r = Undefined

Outcomes ==
  [kind : {"response"}, status : Statuses, code : {""}] \cup
  [kind : {"failure"}, status : {0}, code : TransportCodes]

NoOutcome == [kind |-> "none", status |-> 0, code |-> ""]

----------------------------------------------------------------------------
(* The retry policy installed by axiosRetry(this.client, {retries: 3, ...}): *)
(* no retryCondition is given, so the default of axios-retry ^3.4.0 applies, *)
(* isNetworkOrIdempotentRequestError.                                        *)

retries == 3

IdempotentMethods == {"get", "head", "options", "put", "delete"}

\* is-retry-allowed: codes that are never worth a retry
RetryDenyList == {"ENOTFOUND", "ENETUNREACH"}

\* the error axios rejects with
ErrorOf(outcome) ==
  IF outcome.kind = "response"
    THEN [response |-> Response(outcome.status),
          code |-> IF outcome.status >= 500 THEN "ERR_BAD_RESPONSE" ELSE "ERR_BAD_REQUEST"]
    ELSE [response |-> Undefined, code |-> outcome.code]

NoError == [response |-> Undefined, code |-> ""]

\* a validateStatus that accepts every status
validateStatusAny(status) == status >= 200 /\ status < 600

\* axios default validateStatus: the config given to the constructor sets none
validateStatus(status) == status >= 200 /\ status < 300

\* a retryable test that takes every error status, not only 5xx
isRetryableErrorAnyStatus(error) ==
  /\ error.code # "ECONNABORTED"
  /\ (Falsy(error.response) \/ error.response.status \in 400..599)

isRetryableError(error) ==
  /\ error.code # "ECONNABORTED"
  /\ (Falsy(error.response) \/ error.response.status \in 500..599)

isNetworkError(error) ==
  /\ Falsy(error.response)
  /\ error.code # ""
  /\ error.code # "ECONNABORTED"
  /\ error.code \notin RetryDenyList

isIdempotentRequestError(error, method) ==
  isRetryableError(error) /\ method \in IdempotentMethods

retryCondition(error, method) ==
  isNetworkError(error) \/ isIdempotentRequestError(error, method)

\* a retry test that is off by one
shouldRetryOnceMore(error, method, retryCount) ==
  retryCondition(error, method) /\ retryCount <= retries

shouldRetry(error, method, retryCount) ==
  retryCondition(error, method) /\ retryCount < retries

----------------------------------------------------------------------------
(* BaseApiClient                                                           *)

\* a merge in which the defaults win
_mergeHeadersDefaultsWin(perCall) == Spread(perCall, headers)

\* _mergeHeaders(headers = {})
_mergeHeaders(perCall) == Spread(headers, perCall)

\* the headers axios puts on the wire: the instance's common headers, then its
\* top-level default headers, then the headers of the request config
RequestHeaders(passed) == Spread(Spread(commonHeaders, instanceHeaders), passed)

IdleCall ==
  [pc |-> "idle", method |-> "", perCall |-> NoHeaders, defaults |-> NoHeaders,
   auth |-> "none", passed |-> NoHeaders, sent |-> NoHeaders,
   retryCount |-> 0, attempts |-> 0, retried |-> {}, last |-> NoOutcome,
   raised |-> NoError, how |-> "none", response |-> Null, error |-> NoError]

NoneCompleted == [call |-> "", response |-> Null]
NoRead == [op |-> "none", outcome |-> "none", message |-> "", from |-> Null,
           completed |-> Null]

\* constructor(baseUrl, headers = {}, config = {}): the state after construction
ClientInit ==
  /\ headers \in InitialHeaderSets
  /\ instanceHeaders = headers
  /\ commonHeaders = NoHeaders
  /\ lastResponse = Null
  /\ calls = [c \in CallIds |-> IdleCall]
  /\ preSetHeaders = NoHeaders
  /\ roundTrip = "none"
  /\ authOp = [op |-> "none", authType |-> "", token |-> ""]
  /\ lastIssued = ""
  /\ lastCompleted = NoneCompleted
  /\ lastRead = NoRead

\* the common part of get/post/put/delete/patch up to the await: merge the
\* headers and hand the request to the axios instance (first attempt issued)
Request(c, method, perCall) ==
  /\ calls[c].pc \in {"idle", "done"}
  /\ LET passed == _mergeHeaders(perCall)
     IN calls' = [calls EXCEPT ![c] =
          [IdleCall EXCEPT !.pc = "pending", !.method = method,
             !.perCall = perCall, !.defaults = headers, !.auth = authOp.op,
             !.passed = passed, !.sent = RequestHeaders(passed),
             !.attempts = 1]]
  /\ roundTrip' = "none"
  /\ lastIssued' = c
  /\ UNCHANGED <<headers, instanceHeaders, commonHeaders, lastResponse,
                 preSetHeaders, authOp, lastCompleted, lastRead>>
  /\ UNCHANGED exceptClient

get(c, perCall) == Request(c, "get", perCall)
post(c, perCall) == Request(c, "post", perCall)
put(c, perCall) == Request(c, "put", perCall)
delete(c, perCall) == Request(c, "delete", perCall)
patch(c, perCall) == Request(c, "patch", perCall)

\* a response interceptor that keeps the stored response when a request fails
StoredOnErrorKeepsLast(error, last) == last

\* the response interceptor's error handler: this.lastResponse = error.response
StoredOnError(error, last) == error.response

\* a catch block that throws a new error built from the message alone
RethrowMessageOnly(error) == [response |-> Undefined, code |-> error.code]

\* the verb method's catch block: log the failure and rethrow the error
Rethrow(error) == error

\* the outcome of the attempt in flight arrives.
\*   2xx: the response interceptor stores the response and the verb returns it;
\*   otherwise axios rejects: axios-retry issues the request again when its
\*   condition holds and retries are left, else the response interceptor
\*   stores error.response and the verb method rethrows the error
Settle(c, outcome) ==
  /\ calls[c].pc = "pending"
  /\ LET cur == [calls EXCEPT ![c].last = outcome]
         error == ErrorOf(outcome)
     IN IF outcome.kind = "response" /\ validateStatus(outcome.status)
          THEN /\ lastResponse' = Response(outcome.status)
               /\ lastCompleted' = [call |-> c, response |-> Response(outcome.status)]
               /\ calls' = [cur EXCEPT ![c].pc = "done", ![c].how = "returned",
                                       ![c].response = Response(outcome.status)]
          ELSE IF shouldRetry(error, calls[c].method, calls[c].retryCount)
            THEN /\ calls' = [cur EXCEPT ![c].retryCount = @ + 1,
                                         ![c].attempts = @ + 1,
                                         ![c].retried = @ \cup {outcome}]
                 /\ UNCHANGED <<lastResponse, lastCompleted>>
            ELSE /\ lastResponse' = StoredOnError(error, lastResponse)
                 /\ lastCompleted' = [call |-> c, response |-> error.response]
                 /\ calls' = [cur EXCEPT ![c].pc = "done", ![c].how = "rejected",
                                         ![c].raised = error,
                                         ![c].error = Rethrow(error)]
  /\ UNCHANGED <<headers, instanceHeaders, commonHeaders,
                 preSetHeaders, roundTrip, authOp, lastIssued, lastRead>>
  /\ UNCHANGED exceptClient

\* setAuthorization(authType, token)
setAuthorization(authType, token) ==
  /\ headers' = SetKey(headers, "Authorization", AuthorizationValue(authType, token))
  /\ commonHeaders' = SetKey(commonHeaders, "Authorization",
                             AuthorizationValue(authType, token))
  /\ preSetHeaders' = headers
  /\ roundTrip' = "set"
  /\ authOp' = [op |-> "set", authType |-> authType, token |-> token]
  /\ UNCHANGED <<instanceHeaders, lastResponse, calls, lastIssued, lastCompleted, lastRead>>
  /\ UNCHANGED exceptClient

\* a clearAuthorization that resets the whole header set
clearAuthorizationResetsHeaders ==
  /\ headers' = NoHeaders
  /\ commonHeaders' = DeleteKey(commonHeaders, "Authorization")
  /\ roundTrip' = IF roundTrip = "set" THEN "setclear" ELSE "none"
  /\ authOp' = [op |-> "cleared", authType |-> "", token |-> ""]
  /\ UNCHANGED <<instanceHeaders, lastResponse, calls, preSetHeaders, lastIssued,
                 lastCompleted, lastRead>>
  /\ UNCHANGED exceptClient

\* clearAuthorization()
clearAuthorization ==
  /\ headers' = DeleteKey(headers, "Authorization")
  /\ commonHeaders' = DeleteKey(commonHeaders, "Authorization")
  /\ roundTrip' = IF roundTrip = "set" THEN "setclear" ELSE "none"
  /\ authOp' = [op |-> "cleared", authType |-> "", token |-> ""]
  /\ UNCHANGED <<instanceHeaders, lastResponse, calls, preSetHeaders, lastIssued,
                 lastCompleted, lastRead>>
  /\ UNCHANGED exceptClient

\* getResponseData / getResponseStatusCode / getResponseHeaders: throw when
\* there is no last response, else return the named field of it
ReadLastResponse(op, field) ==
  /\ lastRead' =
       IF Falsy(lastResponse)
         THEN [op |-> op, outcome |-> "Error",
               message |-> "No response available. Make a request first.",
               from |-> lastResponse, completed |-> lastCompleted.response]
         ELSE [op |-> op, outcome |-> "returned " \o field, message |-> "",
               from |-> lastResponse, completed |-> lastCompleted.response]
  /\ UNCHANGED <<headers, instanceHeaders, commonHeaders, lastResponse, calls,
                 preSetHeaders, roundTrip, authOp, lastIssued, lastCompleted>>
  /\ UNCHANGED exceptClient

getResponseData == ReadLastResponse("getResponseData", "data")
getResponseStatusCode == ReadLastResponse("getResponseStatusCode", "status")
getResponseHeaders == ReadLastResponse("getResponseHeaders", "headers")

\* answers of the server to requests that are in flight together
FlightOutcomes ==
  { o \in Outcomes : o.status \in {200, 404} \/ o.code = "ENOTFOUND" }

\* a test that issues requests without awaiting each of them
InFlightNext ==
  \/ \E c \in CallIds : get(c, NoHeaders)
  \/ \E c \in CallIds, o \in FlightOutcomes : Settle(c, o)
  \/ getResponseData
  \/ getResponseStatusCode
  \/ getResponseHeaders

ClientNext ==
  \/ \E c \in AwaitedCalls, h \in PerCallHeaderSets : get(c, h)
  \/ \E c \in AwaitedCalls, h \in PerCallHeaderSets : post(c, h)
  \/ \E c \in AwaitedCalls, h \in PerCallHeaderSets : put(c, h)
  \/ \E c \in AwaitedCalls, h \in PerCallHeaderSets : delete(c, h)
  \/ \E c \in AwaitedCalls, h \in PerCallHeaderSets : patch(c, h)
  \/ \E c \in AwaitedCalls, o \in Outcomes : Settle(c, o)
  \/ \E a \in AuthTypes, t \in Tokens : setAuthorization(a, t)
  \/ clearAuthorization

\* the client part of the state where the client is not used
ClientUnused ==
  /\ headers = NoHeaders
  /\ instanceHeaders = NoHeaders
  /\ commonHeaders = NoHeaders
  /\ lastResponse = Null
  /\ calls = [c \in CallIds |-> IdleCall]
  /\ preSetHeaders = NoHeaders
  /\ roundTrip = "none"
  /\ authOp = [op |-> "none", authType |-> "", token |-> ""]
  /\ lastIssued = ""
  /\ lastCompleted = NoneCompleted
  /\ lastRead = NoRead

----------------------------------------------------------------------------
(* BaseApiClient: the base URL and _buildUrl.  A string is a sequence of   *)
(* one-character strings.                                                  *)

MaxUrlLen == 4

UrlAlphabet == {"a", "/"}

UrlStrings == UNION {[1..n -> UrlAlphabet] : n \in 0..MaxUrlLen}

\* base URLs start with their scheme
BaseUrls == {s \in UrlStrings : Len(s) > 0 /\ s[1] = "a"}

\* s.replace(/\/$/, ''): drop one "/" at the end of the string
StripTrailingSlash(s) ==
  IF Len(s) > 0 /\ s[Len(s)] = "/" THEN SubSeq(s, 1, Len(s) - 1) ELSE s

\* a strip that leaves the endpoint as it is
KeepLeadingSlash(s) == s

\* s.replace(/^\//, ''): drop one "/" at the start of the string
StripLeadingSlash(s) ==
  IF Len(s) > 0 /\ s[1] = "/" THEN SubSeq(s, 2, Len(s)) ELSE s

\* constructor(baseUrl, ...): this.baseUrl = baseUrl.replace(/\/$/, '')
UrlInit ==
  /\ baseUrlArg \in BaseUrls
  /\ baseUrl = StripTrailingSlash(baseUrlArg)
  /\ endpoint = <<>>
  /\ url = <<>>
  /\ urlBuilt = FALSE

UrlUnused ==
  /\ baseUrlArg = <<>>
  /\ baseUrl = <<>>
  /\ endpoint = <<>>
  /\ url = <<>>
  /\ urlBuilt = FALSE

\* _buildUrl(endpoint): `${this.baseUrl}/${endpoint.replace(/^\//, '')}`
_buildUrl(e) ==
  /\ url' = baseUrl \o <<"/">> \o StripLeadingSlash(e)
  /\ endpoint' = e
  /\ urlBuilt' = TRUE
  /\ UNCHANGED <<baseUrlArg, baseUrl>>
  /\ UNCHANGED exceptUrl

UrlNext == \E e \in UrlStrings : _buildUrl(e)

----------------------------------------------------------------------------
(* ConfigLoader.  A JSON value is a record [t, v]: t is its type and v its  *)
(* content (a function from keys for an object, a sequence for an array,    *)
(* a sequence of one-character strings for a string).                       *)

JObj(f) == [t |-> "object", v |-> f]
JArr(a) == [t |-> "array", v |-> a]
JStr(cs) == [t |-> "string", v |-> cs]
JNum(n) == [t |-> "number", v |-> n]
JBool(b) == [t |-> "boolean", v |-> b]
JNull == [t |-> "null", v |-> 0]
JUndefined == [t |-> "undefined", v |-> 0]

\* a === b on values of the model: the same type and the same content
SameJson(a, b) == a.t = b.t /\ a.v = b.v

\* !!value
Truthy(j) ==
  CASE j.t = "null" -> FALSE
    [] j.t = "undefined" -> FALSE
    [] j.t = "boolean" -> j.v
    [] j.t = "number" -> j.v # 0
    [] j.t = "string" -> Len(j.v) > 0
    [] OTHER -> TRUE

\* obj[key]: undefined when obj has no such key
Get(j, key) ==
  IF j.t = "object" /\ key \in DOMAIN j.v THEN j.v[key] ELSE JUndefined

\* the string a sequence of characters spells
RECURSIVE Str(_)
Str(cs) == IF cs = <<>> THEN "" ELSE cs[1] \o Str(Tail(cs))

\* the documents the configuration file can hold
DocA ==
  JObj([environments |->
          JObj([dev |-> JObj([base_url |-> JStr(<<"d", "$", "{", "A", "}">>),
                             retry_attempts |-> JNum(3),
                             hosts |-> JArr(<<JStr(<<"$", "{", "B", "}">>), JNull, JBool(FALSE)>>)]),
                prod |-> JObj([base_url |-> JStr(<<"$", "{", "A", "}", "$", "{", "A", "}">>),
                              retry_attempts |-> JNum(1)])]),
        test_settings |->
          JObj([functional |-> JObj([max_response_time |-> JNum(2000),
                                    parallel_execution |-> JBool(TRUE)]),
                security |-> JObj([scan_levels |->
                                     JArr(<<JStr(<<"$", "{", "A", "}">>),
                                            JObj([level |-> JStr(<<"$", "{", "C", "}", "$", "{", "A", "}">>)])>>)])]),
        reporting |-> JObj([output_dir |-> JStr(<<"r">>)]),
        mocks |-> JObj([wiremock |-> JObj([port |-> JNum(8080),
                                          root_dir |-> JStr(<<"$", "{", "C", "}", "/", "m">>)])])])

DocB ==
  JObj([environments |->
          JObj([test |-> JObj([base_url |-> JStr(<<"t", "$", "{", "$", "{", "A", "}", "}">>)])]),
        test_settings |-> JObj([integration |-> JObj([max_response_time |-> JNum(5000)])])])

DocC ==
  JObj([reporting |-> JObj([output_dir |-> JStr(<<"$", "{", "}">>)]),
        mocks |-> JObj([mockserver |-> JObj([port |-> JNum(1080)])])])

Documents == {DocA, DocB, DocC}

FileStates ==
  {[kind |-> "missing", doc |-> JUndefined], [kind |-> "malformed", doc |-> JUndefined]}
    \cup {[kind |-> "json", doc |-> d] : d \in Documents}

\* the variables of process.env the model sets, and the values they take
EnvNames == {"ENVIRONMENT", "A", "B"}
EnvValues ==
  [ENVIRONMENT |-> {<<>>, <<"prod">>, <<"qa">>},
   A |-> {<<"x">>, <<>>},
   B |-> {<<"$", "{", "A", "}">>}]

ProcessEnvs ==
  UNION {{f \in [D -> UNION {EnvValues[n] : n \in EnvNames}] :
            \A n \in D : f[n] \in EnvValues[n]} : D \in SUBSET EnvNames}

\* the env arguments of getEnvironmentConfig; "" stands for no argument
EnvArgs == {"", "dev", "prod", "qa"}

\* the testType arguments of getTestSettings and mockType arguments of getMockConfig
TestTypes == {"functional", "security", "performance"}
MockTypes == {"wiremock", "mockserver"}

Unset == <<"unset">>

NoCall == [op |-> "none", arg |-> "", envVar |-> Unset, cached |-> FALSE,
           read |-> FALSE, outcome |-> "none", error |-> "", value |-> JUndefined]

NoLoad == [doc |-> JUndefined, env |-> NoHeaders]

\* constructor(configPath): this._config = null
ConfigInit ==
  /\ configFile \in FileStates
  /\ processEnv \in ProcessEnvs
  /\ _config = JNull
  /\ firstLoaded = JNull
  /\ loadedFrom = NoLoad
  /\ lastCall = NoCall

ConfigUnused ==
  /\ configFile = [kind |-> "missing", doc |-> JUndefined]
  /\ processEnv = NoHeaders
  /\ _config = JNull
  /\ firstLoaded = JNull
  /\ loadedFrom = NoLoad
  /\ lastCall = NoCall

\* the first "}" of cs at or after position i, 0 when there is none
RECURSIVE ClosingBrace(_, _)
ClosingBrace(cs, i) ==
  IF i > Len(cs) THEN 0
  ELSE IF cs[i] = "}" THEN i
  ELSE ClosingBrace(cs, i + 1)

\* a callback that gives the empty string for a variable that is not set
EnvVarValueOrEmpty(match, envVarName) ==
  IF envVarName \in DOMAIN processEnv THEN processEnv[envVarName] ELSE <<>>

\* the callback of the replace: (match, envVarName) => process.env[envVarName],
\* or match when that is undefined
EnvVarValue(match, envVarName) ==
  IF envVarName \in DOMAIN processEnv THEN processEnv[envVarName] ELSE match

\* _substituteEnvVars(value) from position i on:
\* value.replace(/\${(.*?)}/g, callback): each match runs from "${" to the
\* first "}" after it, and the text the callback gives is not searched again
RECURSIVE SubstituteFrom(_, _)
SubstituteFrom(cs, i) ==
  IF i > Len(cs) THEN <<>>
  ELSE LET j == IF i + 1 <= Len(cs) /\ cs[i] = "$" /\ cs[i + 1] = "{"
                  THEN ClosingBrace(cs, i + 2) ELSE 0
       IN IF j = 0
            THEN <<cs[i]>> \o SubstituteFrom(cs, i + 1)
            ELSE EnvVarValue(SubSeq(cs, i, j), Str(SubSeq(cs, i + 2, j - 1)))
                   \o SubstituteFrom(cs, j + 1)

\* a replace without the g flag: only the first match is replaced
RECURSIVE SubstituteFirstFrom(_, _)
SubstituteFirstFrom(cs, i) ==
  IF i > Len(cs) THEN <<>>
  ELSE LET j == IF i + 1 <= Len(cs) /\ cs[i] = "$" /\ cs[i + 1] = "{"
                  THEN ClosingBrace(cs, i + 2) ELSE 0
       IN IF j = 0
            THEN <<cs[i]>> \o SubstituteFirstFrom(cs, i + 1)
            ELSE EnvVarValue(SubSeq(cs, i, j), Str(SubSeq(cs, i + 2, j - 1)))
                   \o SubSeq(cs, j + 1, Len(cs))

_substituteFirstEnvVar(value) == SubstituteFirstFrom(value, 1)

_substituteEnvVars(value) == SubstituteFrom(value, 1)

\* a traversal that substitutes in the values of objects but returns arrays
\* as they are
RECURSIVE _processEnvVarsObjectsOnly(_)
_processEnvVarsObjectsOnly(config) ==
  CASE config.t = "object" ->
         JObj([key \in DOMAIN config.v |-> _processEnvVarsObjectsOnly(config.v[key])])
    [] config.t = "string" -> JStr(_substituteEnvVars(config.v))
    [] OTHER -> config

\* _processEnvVars(config)
RECURSIVE _processEnvVars(_)
_processEnvVars(config) ==
  CASE config.t = "array" ->
         JArr([i \in 1..Len(config.v) |-> _processEnvVars(config.v[i])])
    [] config.t = "object" ->
         JObj([key \in DOMAIN config.v |-> _processEnvVars(config.v[key])])
    [] config.t = "string" -> JStr(_substituteEnvVars(config.v))
    [] OTHER -> config

\* a load that reads the file whether or not a configuration is cached
LoadAlways ==
  CASE configFile.kind = "missing" ->
         [ok |-> FALSE, error |-> "ENOENT", config |-> _config, read |-> TRUE]
    [] configFile.kind = "malformed" ->
         [ok |-> FALSE, error |-> "SyntaxError", config |-> _config, read |-> TRUE]
    [] OTHER ->
         [ok |-> TRUE, error |-> "", config |-> _processEnvVars(configFile.doc),
          read |-> TRUE]

\* the body of loadConfig(): ok and config are what it returns and leaves in
\* this._config, error what it throws, read whether it read the file
Load ==
  IF _config.t # "null"
    THEN [ok |-> TRUE, error |-> "", config |-> _config, read |-> FALSE]
    ELSE CASE configFile.kind = "missing" ->
                [ok |-> FALSE, error |-> "ENOENT", config |-> _config, read |-> TRUE]
           [] configFile.kind = "malformed" ->
                [ok |-> FALSE, error |-> "SyntaxError", config |-> _config, read |-> TRUE]
           [] OTHER ->
                [ok |-> TRUE, error |-> "", config |-> _processEnvVars(configFile.doc),
                 read |-> TRUE]

\* the names envVarName takes in the callback while value is substituted
\* from position i on
RECURSIVE EnvVarNamesFrom(_, _)
EnvVarNamesFrom(cs, i) ==
  IF i > Len(cs) THEN {}
  ELSE LET j == IF i + 1 <= Len(cs) /\ cs[i] = "$" /\ cs[i + 1] = "{"
                  THEN ClosingBrace(cs, i + 2) ELSE 0
       IN IF j = 0
            THEN EnvVarNamesFrom(cs, i + 1)
            ELSE {Str(SubSeq(cs, i + 2, j - 1))} \cup EnvVarNamesFrom(cs, j + 1)

\* the names process.env is asked for while config is processed
RECURSIVE EnvVarNames(_)
EnvVarNames(config) ==
  CASE config.t = "array" -> UNION {EnvVarNames(config.v[i]) : i \in 1..Len(config.v)}
    [] config.t = "object" -> UNION {EnvVarNames(config.v[key]) : key \in DOMAIN config.v}
    [] config.t = "string" -> EnvVarNamesFrom(config.v, 1)
    [] OTHER -> {}

\* what a call of loadConfig() with result r leaves behind
Loaded(r) ==
  /\ _config' = r.config
  /\ firstLoaded' = IF firstLoaded.t = "null" /\ r.ok THEN r.config ELSE firstLoaded
  /\ loadedFrom' = IF firstLoaded.t = "null" /\ r.ok
                     THEN [doc |-> configFile.doc,
                           env |-> [n \in EnvVarNames(configFile.doc) \cap DOMAIN processEnv
                                      |-> processEnv[n]]]
                     ELSE loadedFrom

\* process.env.ENVIRONMENT as the call sees it
EnvironmentVariable ==
  IF "ENVIRONMENT" \in DOMAIN processEnv THEN processEnv["ENVIRONMENT"] ELSE Unset

\* an environment name that falls back to 'dev' without looking at ENVIRONMENT
ResolveEnvIgnoringVariable(env) == IF env # "" THEN env ELSE "dev"

\* if (!env) { env = process.env.ENVIRONMENT || 'dev'; }
ResolveEnv(env) ==
  IF env # "" THEN env
  ELSE IF "ENVIRONMENT" \in DOMAIN processEnv /\ Len(processEnv["ENVIRONMENT"]) > 0
    THEN Str(processEnv["ENVIRONMENT"])
    ELSE "dev"

\* loadConfig()
loadConfig ==
  LET r == Load
  IN /\ Loaded(r)
     /\ lastCall' = [op |-> "loadConfig", arg |-> "", envVar |-> EnvironmentVariable,
                     cached |-> firstLoaded.t # "null", read |-> r.read,
                     outcome |-> IF r.ok THEN "returned" ELSE "threw",
                     error |-> r.error,
                     value |-> IF r.ok THEN r.config ELSE JUndefined]
     /\ UNCHANGED <<configFile, processEnv>>
     /\ UNCHANGED exceptConfig

\* getEnvironmentConfig(env)
getEnvironmentConfig(arg) ==
  LET env == ResolveEnv(arg)
      r == Load
      found == /\ r.ok
               /\ Truthy(Get(r.config, "environments"))
               /\ Truthy(Get(Get(r.config, "environments"), env))
  IN /\ Loaded(r)
     /\ lastCall' = [op |-> "getEnvironmentConfig", arg |-> arg,
                     envVar |-> EnvironmentVariable,
                     cached |-> firstLoaded.t # "null", read |-> r.read,
                     outcome |-> IF found THEN "returned" ELSE "threw",
                     error |-> IF ~r.ok THEN r.error
                               ELSE IF found THEN "" ELSE "NotFound",
                     value |-> IF found THEN Get(Get(r.config, "environments"), env)
                               ELSE JUndefined]
     /\ UNCHANGED <<configFile, processEnv>>
     /\ UNCHANGED exceptConfig

\* a lookup that returns config[section][key] without testing it
LookupUnchecked(op, section, key) ==
  LET r == Load
  IN /\ Loaded(r)
     /\ lastCall' = [op |-> op, arg |-> key, envVar |-> Unset,
                     cached |-> firstLoaded.t # "null", read |-> r.read,
                     outcome |-> IF r.ok THEN "returned" ELSE "threw",
                     error |-> r.error,
                     value |-> IF r.ok THEN Get(Get(r.config, section), key)
                               ELSE JUndefined]
     /\ UNCHANGED <<configFile, processEnv>>
     /\ UNCHANGED exceptConfig

\* the body getTestSettings and getMockConfig share:
\*   const config = this.loadConfig();
\*   if (!config[section] || !config[section][key]) { throw new Error(...) }
\*   return config[section][key];
Lookup(op, section, key) ==
  LET r == Load
      found == /\ r.ok
               /\ Truthy(Get(r.config, section))
               /\ Truthy(Get(Get(r.config, section), key))
  IN /\ Loaded(r)
     /\ lastCall' = [op |-> op, arg |-> key, envVar |-> Unset,
                     cached |-> firstLoaded.t # "null", read |-> r.read,
                     outcome |-> IF found THEN "returned" ELSE "threw",
                     error |-> IF ~r.ok THEN r.error
                               ELSE IF found THEN "" ELSE "NotFound",
                     value |-> IF found THEN Get(Get(r.config, section), key)
                               ELSE JUndefined]
     /\ UNCHANGED <<configFile, processEnv>>
     /\ UNCHANGED exceptConfig

\* getTestSettings(testType)
getTestSettings(testType) == Lookup("getTestSettings", "test_settings", testType)

\* getMockConfig(mockType)
getMockConfig(mockType) == Lookup("getMockConfig", "mocks", mockType)

\* getReportingConfig()
getReportingConfig ==
  LET r == Load
      found == r.ok /\ Truthy(Get(r.config, "reporting"))
  IN /\ Loaded(r)
     /\ lastCall' = [op |-> "getReportingConfig", arg |-> "", envVar |-> Unset,
                     cached |-> firstLoaded.t # "null", read |-> r.read,
                     outcome |-> IF found THEN "returned" ELSE "threw",
                     error |-> IF ~r.ok THEN r.error
                               ELSE IF found THEN "" ELSE "NotFound",
                     value |-> IF found THEN Get(r.config, "reporting") ELSE JUndefined]
     /\ UNCHANGED <<configFile, processEnv>>
     /\ UNCHANGED exceptConfig

\* the file at configPath is written, replaced or removed
WriteConfigFile(f) ==
  /\ f # configFile
  /\ configFile' = f
  /\ UNCHANGED <<processEnv, _config, firstLoaded, loadedFrom, lastCall>>
  /\ UNCHANGED exceptConfig

\* a variable of process.env is set
SetEnv(n, v) ==
  /\ ~(n \in DOMAIN processEnv /\ processEnv[n] = v)
  /\ processEnv' = SetKey(processEnv, n, v)
  /\ UNCHANGED <<configFile, _config, firstLoaded, loadedFrom, lastCall>>
  /\ UNCHANGED exceptConfig

\* a variable of process.env is deleted
UnsetEnv(n) ==
  /\ n \in DOMAIN processEnv
  /\ processEnv' = DeleteKey(processEnv, n)
  /\ UNCHANGED <<configFile, _config, firstLoaded, loadedFrom, lastCall>>
  /\ UNCHANGED exceptConfig

ConfigNext ==
  \/ loadConfig
  \/ \E a \in EnvArgs : getEnvironmentConfig(a)
  \/ \E f \in FileStates : WriteConfigFile(f)
  \/ \E n \in EnvNames : \E v \in EnvValues[n] : SetEnv(n, v)
  \/ \E n \in EnvNames : UnsetEnv(n)

\* the getters of the sections other than environments
SettingsNext ==
  \/ loadConfig
  \/ \E t \in TestTypes : getTestSettings(t)
  \/ getReportingConfig
  \/ \E m \in MockTypes : getMockConfig(m)
  \/ \E f \in FileStates : WriteConfigFile(f)
  \/ \E n \in {"A"} : \E v \in EnvValues[n] : SetEnv(n, v)

----------------------------------------------------------------------------
(* ApiAssertions (core/assertions/js_assertions.js).  Header names, header *)
(* values and content types are sequences of characters.                   *)

UpperToLower ==
  [A |-> "a", B |-> "b", C |-> "c", D |-> "d", E |-> "e", F |-> "f", G |-> "g",
   H |-> "h", I |-> "i", J |-> "j", K |-> "k", L |-> "l", M |-> "m", N |-> "n",
   O |-> "o", P |-> "p", Q |-> "q", R |-> "r", S |-> "s", T |-> "t", U |-> "u",
   V |-> "v", W |-> "w", X |-> "x", Y |-> "y", Z |-> "z"]

\* String.prototype.toLowerCase
toLowerCase(cs) ==
  [i \in 1..Len(cs) |-> IF cs[i] \in DOMAIN UpperToLower THEN UpperToLower[cs[i]] ELSE cs[i]]

\* String.prototype.includes / chai's include on a string: a substring test
\* that distinguishes letter case
includes(hay, needle) ==
  \E i \in 1..(Len(hay) - Len(needle) + 1) : SubSeq(hay, i, i + Len(needle) - 1) = needle

\* header names
content_type == <<"c", "o", "n", "t", "e", "n", "t", "-", "t", "y", "p", "e">>
Content_Type == <<"C", "o", "n", "t", "e", "n", "t", "-", "T", "y", "p", "e">>
CONTENT_TYPE == <<"C", "O", "N", "T", "E", "N", "T", "-", "T", "Y", "P", "E">>
x_request_id == <<"x", "-", "r", "e", "q", "u", "e", "s", "t", "-", "i", "d">>

\* header values
application_json == <<"a", "p", "p", "l", "i", "c", "a", "t", "i", "o", "n", "/", "j", "s", "o", "n">>
application_json_utf8 == <<"a", "p", "p", "l", "i", "c", "a", "t", "i", "o", "n", "/", "j", "s", "o", "n", ";", " ", "c", "h", "a", "r", "s", "e", "t", "=", "u", "t", "f", "-", "8">>
Application_JSON == <<"A", "p", "p", "l", "i", "c", "a", "t", "i", "o", "n", "/", "J", "S", "O", "N">>
text_html == <<"t", "e", "x", "t", "/", "h", "t", "m", "l">>

NoResponseHeaders == [k \in {} |-> <<>>]

\* the header sets of the responses
ResponseHeaderSets ==
  { NoResponseHeaders,
    [k \in {x_request_id} |-> <<"1">>] }
  \cup {[k \in {n} |-> v] :
          n \in {content_type, Content_Type, CONTENT_TYPE},
          v \in {application_json, application_json_utf8, Application_JSON, text_html}}

\* the parsed bodies of the responses: objects, null and the empty string of a
\* response without content
ResponseBodies ==
  << JObj([id |-> JNum(1), name |-> JStr(<<"A">>)]),
     JObj([id |-> JNum(2)]),
     JObj([id |-> JObj([a |-> JNum(1)]), status |-> JNum(1)]),
     JNull,
     JStr(<<>>) >>

\* response.config: as axios leaves it, and as an interceptor that tracks the
\* response time leaves it
ResponseTimes == {0, 50, 150}
ResponseConfigs ==
  { JObj([k \in {} |-> JNull]) }
  \cup {JObj([metadata |-> JObj([responseTime |-> JNum(t)])]) : t \in ResponseTimes}

AssertStatuses == {200, 204, 404}

\* the response as a JavaScript object: its properties by name
ResponseObject(r) ==
  JObj([status |-> JNum(r.status), headers |-> JObj(r.headers),
        data |-> r.data, config |-> r.config])

NoAssertion == [op |-> "none", outcome |-> "none", message |-> <<>>]

AssertInit ==
  /\ \E st \in AssertStatuses, h \in ResponseHeaderSets,
        i \in DOMAIN ResponseBodies, c \in ResponseConfigs :
       response = [status |-> st, headers |-> h, data |-> ResponseBodies[i], config |-> c]
  /\ assertion = NoAssertion

AssertUnused ==
  /\ response = [status |-> 200, headers |-> NoResponseHeaders, data |-> JNull,
                 config |-> JObj([k \in {} |-> JNull])]
  /\ assertion = NoAssertion

\* what an assertion that returns normally leaves behind
Passed(op, args) ==
  [op |-> op, args |-> args, outcome |-> "passed", message |-> <<>>]

\* what an assertion that chai fails leaves behind
Failed(op, args, message) ==
  [op |-> op, args |-> args, outcome |-> "AssertionError", message |-> message]

\* what an assertion that throws a plain Error leaves behind
Threw(op, args, message) ==
  [op |-> op, args |-> args, outcome |-> "Error", message |-> message]

\* the message of a failed assertion: its wording and the actual and the
\* expected value it names
Message(wording, actual, expected) ==
  [wording |-> wording, actual |-> actual, expected |-> expected]

\* the arguments of the assertions
ExpectedCodes == {200, 404}
MaxTimes == {0, 100}
JsonKeys == {"id", "name", "status", "missing"}
ExpectedValues ==
  << JNum(1), JNum(2), JNum(204), JStr(<<"A">>), JObj([a |-> JNum(1)]) >>

\* an equality that takes every status of the same class for the expected one
equalSameClass(actual, expected) == actual \div 100 = expected \div 100

\* chai's equal: strict equality
equal(actual, expected) == actual = expected

\* chai's deep.equal: the same type, and the same members all the way down
RECURSIVE deepEqual(_, _)
deepEqual(a, b) ==
  /\ a.t = b.t
  /\ CASE a.t = "object" ->
            /\ DOMAIN a.v = DOMAIN b.v
            /\ \A k \in DOMAIN a.v : deepEqual(a.v[k], b.v[k])
       [] a.t = "array" ->
            /\ Len(a.v) = Len(b.v)
            /\ \A i \in 1..Len(a.v) : deepEqual(a.v[i], b.v[i])
       [] OTHER -> a.v = b.v

\* assertStatusCode(response, expectedCode)
assertStatusCode(expectedCode) ==
  /\ assertion' =
       IF equal(response.status, expectedCode)
         THEN Passed("assertStatusCode", expectedCode)
         ELSE Failed("assertStatusCode", expectedCode,
                     Message("expected #{act} to equal #{exp}", response.status, expectedCode))
  /\ UNCHANGED response
  /\ UNCHANGED exceptAssert

\* assertHeaderExists(response, headerName): does the assertion hold
assertHeaderExists(headerName) ==
  toLowerCase(headerName) \in {toLowerCase(h) : h \in DOMAIN response.headers}

\* response.headers[headerName] || ''
HeaderOrEmpty(headerName) ==
  IF headerName \in DOMAIN response.headers THEN response.headers[headerName] ELSE <<>>

\* assertContentType(response, expectedContentType)
assertContentType(op, expectedContentType) ==
  /\ assertion' =
       IF ~assertHeaderExists(content_type)
         THEN Failed(op, expectedContentType,
                     Message("expected #{this} to include #{exp}",
                             {toLowerCase(h) : h \in DOMAIN response.headers}, content_type))
         ELSE LET contentType == HeaderOrEmpty(content_type)
              IN IF includes(contentType, expectedContentType)
                   THEN Passed(op, expectedContentType)
                   ELSE Failed(op, expectedContentType,
                               Message("expected #{this} to include #{exp}",
                                       contentType, expectedContentType))
  /\ UNCHANGED response
  /\ UNCHANGED exceptAssert

\* assertJsonContentType(response)
assertJsonContentType == assertContentType("assertJsonContentType", application_json)

\* const data = response.data || response
DataOrResponse(r) == IF Truthy(Get(r, "data")) THEN Get(r, "data") ELSE r

\* the two expectations of assertJsonValue on the value r it is given
JsonValueOutcome(r, key, expectedValue) ==
  LET data == DataOrResponse(r)
  IN IF ~(data.t = "object" /\ key \in DOMAIN data.v)
       THEN [outcome |-> "AssertionError",
             message |-> Message("expected #{this} to have property #{exp}", data, key)]
     ELSE IF deepEqual(Get(data, key), expectedValue)
       THEN [outcome |-> "passed", message |-> <<>>]
       ELSE [outcome |-> "AssertionError",
             message |-> Message("expected #{this} to deeply equal #{exp}",
                                 Get(data, key), expectedValue)]

\* assertJsonValue(response, key, expectedValue)
assertJsonValue(key, expectedValue) ==
  LET args == [key |-> key, expectedValue |-> expectedValue]
      o == JsonValueOutcome(ResponseObject(response), key, expectedValue)
  IN /\ assertion' = [op |-> "assertJsonValue", args |-> args,
                      outcome |-> o.outcome, message |-> o.message]
     /\ UNCHANGED response
     /\ UNCHANGED exceptAssert

\* assertJsonValues(response, keyValues): keyValues is Object.entries of the
\* argument, the pairs in insertion order; forEach stops at the first pair
\* whose assertJsonValue throws
assertJsonValues(keyValues) ==
  LET data == DataOrResponse(ResponseObject(response))
      o(i) == JsonValueOutcome(data, keyValues[i][1], keyValues[i][2])
      thrown == {i \in DOMAIN keyValues : o(i).outcome # "passed"}
  IN /\ assertion' =
          IF thrown = {}
            THEN Passed("assertJsonValues", keyValues)
            ELSE LET first == CHOOSE i \in thrown : \A j \in thrown : i <= j
                 IN Failed("assertJsonValues", keyValues, o(first).message)
     /\ UNCHANGED response
     /\ UNCHANGED exceptAssert

\* assertResponseTime(response, maxTimeMs)
assertResponseTime(maxTimeMs) ==
  LET metadata == Get(response.config, "metadata")
      responseTime == Get(metadata, "responseTime")
  IN /\ assertion' =
          IF ~Truthy(response.config) \/ ~Truthy(metadata) \/ ~Truthy(responseTime)
            THEN Threw("assertResponseTime", maxTimeMs,
                       Message("Response time is not available", 0, maxTimeMs))
          ELSE IF responseTime.v <= maxTimeMs
            THEN Passed("assertResponseTime", maxTimeMs)
            ELSE Failed("assertResponseTime", maxTimeMs,
                        Message("expected #{this} to be at most #{exp}",
                                responseTime.v, maxTimeMs))
     /\ UNCHANGED response
     /\ UNCHANGED exceptAssert

AssertNext ==
  \/ \E e \in ExpectedCodes : assertStatusCode(e)
  \/ assertJsonContentType
  \/ \E k \in JsonKeys : \E i \in DOMAIN ExpectedValues : assertJsonValue(k, ExpectedValues[i])
  \/ \E m \in MaxTimes : assertResponseTime(m)

\* the bodies given to assertJsonValues: without a key data, with a key data
\* next to others, with nothing but a key data, and the falsy ones
DataBodies ==
  << JObj([id |-> JNum(1), name |-> JStr(<<"A">>)]),
     JObj([data |-> JObj([id |-> JNum(1)]), id |-> JNum(2)]),
     JObj([data |-> JObj([id |-> JNum(1), name |-> JStr(<<"A">>)])]),
     JObj([data |-> JArr(<< JObj([id |-> JNum(1)]) >>), id |-> JNum(1)]),
     JObj([data |-> JNull, id |-> JNum(1)]),
     JNull,
     JStr(<<>>) >>

JsonValuesInit ==
  /\ \E st \in AssertStatuses, i \in DOMAIN DataBodies :
       response = [status |-> st, headers |-> NoResponseHeaders, data |-> DataBodies[i],
                   config |-> JObj([k \in {} |-> JNull])]
  /\ assertion = NoAssertion

\* the pairs of keyValues: a key of the body with a value
MaxPairs == 2
PairKeys == {"id", "name"}
PairValues == << JNum(1), JNum(2), JStr(<<"A">>) >>
KeyValuePairs == PairKeys \X DOMAIN PairValues

\* the objects given as keyValues, each pair a key and the place of its value
\* in PairValues: no key twice
KeyValues ==
  UNION {{kv \in [1..n -> KeyValuePairs] :
            \A i, j \in 1..n : i # j => kv[i][1] # kv[j][1]} : n \in 0..MaxPairs}

\* Object.entries(keyValues)
Entries(kv) == [i \in DOMAIN kv |-> <<kv[i][1], PairValues[kv[i][2]]>>]

JsonValuesNext ==
  \/ \E kv \in KeyValues : assertJsonValues(Entries(kv))
  \/ \E p \in KeyValuePairs : assertJsonValue(p[1], PairValues[p[2]])

----------------------------------------------------------------------------
(* AllureReporter (core/reporting/allure_reporter.js).  The runtime is the  *)
(* results sink: writeTest adds a test result to it and writeAttachment an  *)
(* attachment.  Identifiers and time stamps of a test result are left out.  *)

MaxSteps == 2
MaxLabels == 2
MaxResults == 1
MaxAttachments == 4
MaxTests == 3

\* header names
Hdr_Authorization == <<"A", "u", "t", "h", "o", "r", "i", "z", "a", "t", "i", "o", "n">>
Hdr_authorization == <<"a", "u", "t", "h", "o", "r", "i", "z", "a", "t", "i", "o", "n">>
Hdr_X_API_Key == <<"X", "-", "A", "P", "I", "-", "K", "e", "y">>
Hdr_Cookie == <<"C", "o", "o", "k", "i", "e">>
Hdr_Set_Cookie == <<"S", "e", "t", "-", "C", "o", "o", "k", "i", "e">>
Hdr_Accept == <<"A", "c", "c", "e", "p", "t">>
\* the key of axios' defaults.headers under which setAuthorization stores
\* the Authorization header (client.defaults.headers.common.Authorization)
Hdr_common == <<"c", "o", "m", "m", "o", "n">>

\* const sensitiveHeaders = ['authorization', 'x-api-key', 'cookie']
sensitiveHeaders == {<<"a", "u", "t", "h", "o", "r", "i", "z", "a", "t", "i", "o", "n">>, <<"x", "-", "a", "p", "i", "-", "k", "e", "y">>, <<"c", "o", "o", "k", "i", "e">>}

\* the mask
Mask == "*****"

NoReportedHeaders == [k \in {} |-> ""]

\* the value of a key of a headers object: a string, or an object that holds
\* headers itself
HeaderValue(text) == [object |-> FALSE, text |-> text, headers |-> NoReportedHeaders]
HeaderGroup(h) == [object |-> TRUE, text |-> "", headers |-> h]

\* apiClient.client.defaults.headers after setAuthorization('Bearer', 's7'):
\* the headers given to the constructor at the top, the Authorization header
\* under the key common
DefaultsHeaders ==
  [k \in {Hdr_common, Hdr_Accept} |->
     IF k = Hdr_common
       THEN HeaderGroup([n \in {Hdr_Accept, Hdr_Authorization} |->
                           IF n = Hdr_Authorization THEN "Bearer s7" ELSE "*/*"])
       ELSE HeaderValue("application/json")]

\* the headers objects given to addApiRequest
RequestHeaderSets ==
  { NoReportedHeaders,
    [k \in {Hdr_Accept} |-> HeaderValue("application/json")],
    [k \in {Hdr_Authorization, Hdr_Accept} |->
       IF k = Hdr_Authorization THEN HeaderValue("Bearer s1") ELSE HeaderValue("text/plain")],
    [k \in {Hdr_authorization} |-> HeaderValue("Basic s2")],
    [k \in {Hdr_X_API_Key, Hdr_Cookie} |->
       IF k = Hdr_X_API_Key THEN HeaderValue("key3") ELSE HeaderValue("sid=4")],
    DefaultsHeaders }

\* the responses given to addApiResponse
ReportedResponses ==
  { [status |-> 200, text |-> "200",
     headers |-> [k \in {Hdr_Set_Cookie, Hdr_Cookie} |->
                    IF k = Hdr_Cookie THEN HeaderValue("sid=5") ELSE HeaderValue("sid=6")],
     data |-> "ok"],
    [status |-> 404, text |-> "404",
     headers |-> [k \in {Hdr_Accept} |-> HeaderValue("text/plain")], data |-> ""] }

\* the other arguments of the reporter's operations; "" stands for an
\* argument that is not given
RequestLines == {[method |-> "GET", url |-> "/users"]}
RequestBodies == {"", "payload"}
TestNames == {"t1", "t2"}
StepArgs ==
  { [name |-> "s1", status |-> "passed", details |-> ""],
    [name |-> "s2", status |-> "failed", details |-> "details"] }
Labels == {[name |-> "suite", value |-> "users"], [name |-> "tag", value |-> "smoke"]}
\* elapsedTime.toFixed(2), "" when no elapsed time is given
ElapsedTimes == {"", "12.00"}
EndArgs ==
  { [status |-> "passed", error |-> ""],
    [status |-> "failed", error |-> "boom"] }

\* this.currentTest = null
NullTest ==
  [null |-> TRUE, uuid |-> 0, name |-> "", fullName |-> "", status |-> "", stage |-> "",
   statusDetails |-> "", steps |-> <<>>, labels |-> <<>>]

\* new allure.TestResult(uuid) with its name set; the uuid is the number of
\* the startTest that made it
TestResult(uuid, testName) ==
  [null |-> FALSE, uuid |-> uuid, name |-> testName, fullName |-> testName, status |-> "",
   stage |-> "", statusDetails |-> "", steps |-> <<>>, labels |-> <<>>]

\* new allure.StepResult(name) with its status and stage set
StepResult(name, status) == [name |-> name, status |-> status, stage |-> "finished"]

\* an attachment as runtime.writeAttachment(content, name, type) receives it
Attachment(content, name, type) == [content |-> content, name |-> name, type |-> type]

\* JSON.stringify(headers, null, 2): the text names every key with its
\* value, an object's keys and values included
Stringify(h) == [json |-> {<<k, h[k]>> : k \in DOMAIN h}]

NoIdleCall == [op |-> "", results |-> <<>>, attachments |-> <<>>]

\* started counts the startTests, replaced holds the uuids of the tests a
\* startTest replaced, idle is the last operation called while no test was
\* open with the sink as it was then
NoLog == [phase |-> "none", clean |-> FALSE, name |-> "", status |-> "",
          steps |-> <<>>, labels |-> <<>>, before |-> <<>>,
          started |-> 0, replaced |-> {}, idle |-> NoIdleCall]

\* an operation is called while the reporter is disabled or no test is open
NoContextCall(op) ==
  /\ testLog' = [testLog EXCEPT !.idle = [op |-> op, results |-> results,
                                          attachments |-> attachments]]
  /\ UNCHANGED <<enabled, currentTest, currentExecutable, results, attachments,
                 callerHeaders>>

NoCallerHeaders == [op |-> "none", before |-> NoReportedHeaders, after |-> NoReportedHeaders,
                    persisted |-> [json |-> {}]]

\* constructor(): enabled unless reporting.allure.enabled is false
ReporterInit ==
  /\ enabled \in BOOLEAN
  /\ currentTest = NullTest
  /\ currentExecutable = NullTest
  /\ results = <<>>
  /\ attachments = <<>>
  /\ callerHeaders = NoCallerHeaders
  /\ testLog = NoLog

ReporterUnused ==
  /\ enabled = FALSE
  /\ currentTest = NullTest
  /\ currentExecutable = NullTest
  /\ results = <<>>
  /\ attachments = <<>>
  /\ callerHeaders = NoCallerHeaders
  /\ testLog = NoLog

\* _sanitizeHeaders(headers): sanitized is the copy { ...headers } it
\* returns, in which the keys of the headers object itself are looked at;
\* headers is the argument object as the call leaves it
_sanitizeHeaders(h) ==
  [sanitized |-> [k \in DOMAIN h |->
                    IF toLowerCase(k) \in sensitiveHeaders THEN HeaderValue(Mask) ELSE h[k]],
   headers |-> h]

\* this.currentExecutable.steps.push(step)
PushStep(test, step) == [test EXCEPT !.steps = Append(@, step)]

\* a startTest that hands the steps of the open test to the new one
startTestKeepsSteps(testName) ==
  /\ Len(results) < MaxResults
  /\ testLog.started < MaxTests
  /\ IF ~enabled
       THEN UNCHANGED reporterVars
       ELSE /\ currentTest' = [TestResult(testLog.started + 1, testName)
                                 EXCEPT !.steps = currentTest.steps]
            /\ currentExecutable' = currentTest'
            /\ testLog' = [phase |-> "open", clean |-> currentTest.null, name |-> testName,
                           status |-> "", steps |-> <<>>, labels |-> <<>>, before |-> results,
                           started |-> testLog.started + 1,
                           replaced |-> IF currentTest.null THEN testLog.replaced
                                        ELSE testLog.replaced \cup {currentTest.uuid},
                           idle |-> NoIdleCall]
            /\ UNCHANGED <<enabled, results, attachments, callerHeaders>>
  /\ UNCHANGED exceptReporter

\* startTest(testName, description)
startTest(testName) ==
  /\ Len(results) < MaxResults
  /\ testLog.started < MaxTests
  /\ IF ~enabled
       THEN UNCHANGED reporterVars
       ELSE /\ currentTest' = TestResult(testLog.started + 1, testName)
            /\ currentExecutable' = TestResult(testLog.started + 1, testName)
            /\ testLog' = [phase |-> "open", clean |-> currentTest.null, name |-> testName,
                           status |-> "", steps |-> <<>>, labels |-> <<>>, before |-> results,
                           started |-> testLog.started + 1,
                           replaced |-> IF currentTest.null THEN testLog.replaced
                                        ELSE testLog.replaced \cup {currentTest.uuid},
                           idle |-> NoIdleCall]
            /\ UNCHANGED <<enabled, results, attachments, callerHeaders>>
  /\ UNCHANGED exceptReporter

\* an endTest that writes the result and leaves the test open
endTestKeepsOpen(status, error) ==
  /\ IF ~enabled \/ currentTest.null
       THEN NoContextCall("endTest")
       ELSE /\ results' = Append(results,
                                 [currentTest EXCEPT !.status = status, !.stage = "finished",
                                                     !.statusDetails = error])
            /\ testLog' = [testLog EXCEPT !.phase = "ended", !.status = status]
            /\ UNCHANGED <<enabled, currentTest, currentExecutable, attachments, callerHeaders>>
  /\ UNCHANGED exceptReporter

\* an endTest without the test for an open test
endTestWritesAgain(status, error) ==
  /\ IF ~enabled
       THEN NoContextCall("endTest")
       ELSE /\ results' = Append(results,
                                 [currentTest EXCEPT !.status = status, !.stage = "finished",
                                                     !.statusDetails = error])
            /\ currentTest' = NullTest
            /\ currentExecutable' = NullTest
            /\ testLog' = [testLog EXCEPT !.phase = "ended", !.status = status,
                                          !.idle = IF currentTest.null
                                                     THEN [op |-> "endTest", results |-> results,
                                                           attachments |-> attachments]
                                                     ELSE @]
            /\ UNCHANGED <<enabled, attachments, callerHeaders>>
  /\ UNCHANGED exceptReporter

\* endTest(status = 'passed', error)
endTest(status, error) ==
  /\ IF ~enabled \/ currentTest.null
       THEN NoContextCall("endTest")
       ELSE /\ results' = Append(results,
                                 [currentTest EXCEPT !.status = status, !.stage = "finished",
                                                     !.statusDetails = error])
            /\ currentTest' = NullTest
            /\ currentExecutable' = NullTest
            /\ testLog' = [testLog EXCEPT !.phase = "ended", !.status = status]
            /\ UNCHANGED <<enabled, attachments, callerHeaders>>
  /\ UNCHANGED exceptReporter

\* addStep(name, status = 'passed', details); currentExecutable and
\* currentTest are the same object
addStep(name, status, details) ==
  /\ IF ~enabled \/ currentExecutable.null
       THEN NoContextCall("addStep")
       ELSE /\ Len(currentExecutable.steps) < MaxSteps
            /\ Len(attachments) < MaxAttachments
            /\ attachments' = IF details # ""
                                THEN Append(attachments,
                                            Attachment(details, "Step Details", "text/plain"))
                                ELSE attachments
            /\ currentExecutable' = PushStep(currentExecutable, StepResult(name, status))
            /\ currentTest' = PushStep(currentTest, StepResult(name, status))
            /\ testLog' = [testLog EXCEPT !.steps = Append(@, StepResult(name, status))]
            /\ UNCHANGED <<enabled, results, callerHeaders>>
  /\ UNCHANGED exceptReporter

\* addLabel(name, value), called as op
LabelAdded(op, label) ==
  /\ IF ~enabled \/ currentTest.null
       THEN NoContextCall(op)
       ELSE /\ Len(currentTest.labels) < MaxLabels
            /\ currentTest' = [currentTest EXCEPT !.labels = Append(@, label)]
            /\ currentExecutable' = [currentExecutable EXCEPT !.labels = Append(@, label)]
            /\ testLog' = [testLog EXCEPT !.labels = Append(@, label)]
            /\ UNCHANGED <<enabled, results, attachments, callerHeaders>>
  /\ UNCHANGED exceptReporter

addLabel(label) == LabelAdded("addLabel", label)

\* addTag(tag) and addSeverity(severity): the same guard, then addLabel
addTag(tag) == LabelAdded("addTag", [name |-> "tag", value |-> tag])
addSeverity(severity) == LabelAdded("addSeverity", [name |-> "severity", value |-> severity])

\* addApiRequest(method, url, headers, body)
addApiRequest(line, given, h, body) ==
  /\ IF ~enabled \/ currentExecutable.null
       THEN NoContextCall("addApiRequest")
       ELSE LET step == StepResult(line.method \o " " \o line.url, "passed")
                s == _sanitizeHeaders(h)
                withHeaders ==
                  IF given
                    THEN Append(attachments,
                                Attachment(Stringify(s.sanitized), "Request Headers",
                                           "application/json"))
                    ELSE attachments
            IN /\ Len(currentExecutable.steps) < MaxSteps
               /\ Len(attachments) < MaxAttachments
               /\ currentExecutable' = PushStep(currentExecutable, step)
               /\ currentTest' = PushStep(currentTest, step)
               /\ attachments' = IF body # ""
                                   THEN Append(withHeaders,
                                               Attachment(body, "Request Body", "text/plain"))
                                   ELSE withHeaders
               /\ callerHeaders' = IF given
                                     THEN [op |-> "addApiRequest", before |-> h,
                                           after |-> s.headers,
                                           persisted |-> Stringify(s.sanitized)]
                                     ELSE callerHeaders
               /\ testLog' = [testLog EXCEPT !.steps = Append(@, step)]
               /\ UNCHANGED <<enabled, results>>
  /\ UNCHANGED exceptReporter

\* addApiResponse(response, elapsedTime)
addApiResponse(resp, elapsedTime) ==
  /\ IF ~enabled \/ currentExecutable.null
       THEN NoContextCall("addApiResponse")
       ELSE LET step == StepResult("Response: " \o resp.text, "passed")
                statusInfo == [status |-> resp.status, time |-> elapsedTime]
                s == _sanitizeHeaders(resp.headers)
                withHeaders ==
                  attachments \o
                    << Attachment(statusInfo, "Response Status", "text/plain"),
                       Attachment(Stringify(s.sanitized), "Response Headers",
                                  "application/json") >>
            IN /\ Len(currentExecutable.steps) < MaxSteps
               /\ Len(attachments) < MaxAttachments
               /\ currentExecutable' = PushStep(currentExecutable, step)
               /\ currentTest' = PushStep(currentTest, step)
               /\ attachments' = IF resp.data # ""
                                   THEN Append(withHeaders,
                                               Attachment(resp.data, "Response Body",
                                                          "text/plain"))
                                   ELSE withHeaders
               /\ callerHeaders' = [op |-> "addApiResponse", before |-> resp.headers,
                                    after |-> s.headers,
                                    persisted |-> Stringify(s.sanitized)]
               /\ testLog' = [testLog EXCEPT !.steps = Append(@, step)]
               /\ UNCHANGED <<enabled, results>>
  /\ UNCHANGED exceptReporter

\* the request and the response a test logs between its steps
LoggedRequestHeaders ==
  [k \in {Hdr_Authorization, Hdr_Accept} |->
     IF k = Hdr_Authorization THEN HeaderValue("Bearer s1") ELSE HeaderValue("text/plain")]
LoggedResponse ==
  [status |-> 404, text |-> "404",
   headers |-> [k \in {Hdr_Accept} |-> HeaderValue("text/plain")], data |-> ""]

\* the life of a test: started, steps and labels added, ended
ReporterNext ==
  \/ \E n \in TestNames : startTest(n)
  \/ \E e \in EndArgs : endTest(e.status, e.error)
  \/ \E a \in StepArgs : addStep(a.name, a.status, a.details)
  \/ \E l \in Labels : addLabel(l)
  \/ \E line \in RequestLines : addApiRequest(line, TRUE, LoggedRequestHeaders, "")
  \/ addApiResponse(LoggedResponse, "")

\* tests started while another is open, and operations called while none is
ContextNext ==
  \/ \E n \in TestNames : startTest(n)
  \/ endTest("passed", "")
  \/ addStep("s1", "passed", "details")
  \/ addTag("security")
  \/ addSeverity("critical")
  \/ \E line \in RequestLines : addApiRequest(line, TRUE, LoggedRequestHeaders, "")
  \/ addApiResponse(LoggedResponse, "")

\* the requests and responses logged in a test
ApiLogNext ==
  \/ startTest("t1")
  \/ endTest("passed", "")
  \/ \E line \in RequestLines, h \in RequestHeaderSets, b \in RequestBodies :
       addApiRequest(line, TRUE, h, b)
  \/ \E line \in RequestLines, b \in RequestBodies :
       addApiRequest(line, FALSE, NoReportedHeaders, b)
  \/ \E r \in ReportedResponses, t \in ElapsedTimes : addApiResponse(r, t)

----------------------------------------------------------------------------
(* run_tests.sh: the test runner script.  The script runs under set -e: a  *)
(* command that fails outside a condition ends the script with that        *)
(* command's status.                                                       *)

\* the command lines the script is started with
EnvFlags == { <<>>, <<"-e", "staging">>, <<"--env", "prod">>, <<"-e", "dev">>, <<"-e">> }
LanguageFlags == { <<>>, <<"-l", "java">>, <<"--language", "python">>,
                   <<"-l", "javascript">>, <<"-l", "all">> }
OtherFlags == { <<>>, <<"-v">> }
CommandLines == { l \o o \o e : l \in LanguageFlags, o \in OtherFlags, e \in EnvFlags }

\* ./mvnw clean test: the tests pass, a test fails, or ./mvnw cannot be run
MvnwOutcomes == { [outcome |-> "passed", status |-> 0],
                  [outcome |-> "failed", status |-> 1],
                  [outcome |-> "not run", status |-> 127] }

ScriptLanguages == {"python", "javascript"}

RunInit ==
  /\ argv \in CommandLines
  /\ commandLine = argv
  /\ LANGUAGE = "" /\ TEST_TYPE = "" /\ ENV = "" /\ ENVIRONMENT = ""
  /\ mvnw \in MvnwOutcomes
  /\ testDirs \in SUBSET ScriptLanguages
  /\ scriptPc = "defaults"
  /\ exitStatus = -1
  /\ suites = <<>>

RunUnused ==
  /\ argv = <<>>
  /\ commandLine = <<>>
  /\ LANGUAGE = "" /\ TEST_TYPE = "" /\ ENV = "" /\ ENVIRONMENT = ""
  /\ mvnw = [outcome |-> "passed", status |-> 0]
  /\ testDirs = {}
  /\ scriptPc = "unused"
  /\ exitStatus = -1
  /\ suites = <<>>


\* exit n
Exit(n) == scriptPc' = "exited" /\ exitStatus' = n

\* a suite is started: what it is and the ENVIRONMENT it sees
Suite(name, outcome) == [suite |-> name, environment |-> ENVIRONMENT, outcome |-> outcome]

\* lines 14-27: the defaults, then export ENVIRONMENT="$ENV"
SetDefaults ==
  /\ scriptPc = "defaults"
  /\ LANGUAGE' = "all"
  /\ TEST_TYPE' = "functional"
  /\ ENV' = "dev"
  /\ ENVIRONMENT' = "dev"
  /\ scriptPc' = "parse"
  /\ UNCHANGED <<argv, mvnw, testDirs, exitStatus, suites, commandLine>>
  /\ UNCHANGED exceptRun

\* "$2", empty when there is no second argument
SecondArg == IF Len(argv) >= 2 THEN argv[2] ELSE ""

\* lines 30-60: one turn of the while loop.  shift 2 fails when one
\* argument is left, which ends the script
ParseArgument ==
  /\ scriptPc = "parse"
  /\ argv # <<>>
  /\ IF Head(argv) \in {"-l", "--language", "-t", "--type", "-e", "--env"}
       THEN /\ LANGUAGE' = IF Head(argv) \in {"-l", "--language"} THEN SecondArg ELSE LANGUAGE
            /\ TEST_TYPE' = IF Head(argv) \in {"-t", "--type"} THEN SecondArg ELSE TEST_TYPE
            /\ ENV' = IF Head(argv) \in {"-e", "--env"} THEN SecondArg ELSE ENV
            /\ IF Len(argv) >= 2
                 THEN /\ argv' = Tail(Tail(argv))
                      /\ UNCHANGED <<scriptPc, exitStatus>>
                 ELSE /\ Exit(1)
                      /\ UNCHANGED argv
       ELSE /\ argv' = Tail(argv)
            /\ UNCHANGED <<LANGUAGE, TEST_TYPE, ENV, scriptPc, exitStatus>>
  /\ UNCHANGED <<ENVIRONMENT, mvnw, testDirs, suites, commandLine>>
  /\ UNCHANGED exceptRun

\* lines 73-86: the Java suite
RunJavaTests ==
  /\ scriptPc = "parse"
  /\ argv = <<>>
  /\ IF LANGUAGE \in {"all", "java"}
       THEN /\ suites' = Append(suites, Suite("java", mvnw.outcome))
            /\ IF mvnw.status = 0
                 THEN scriptPc' = "python" /\ UNCHANGED exitStatus
                 ELSE Exit(mvnw.status)
       ELSE /\ scriptPc' = "python"
            /\ UNCHANGED <<suites, exitStatus>>
  /\ UNCHANGED <<argv, LANGUAGE, TEST_TYPE, ENV, ENVIRONMENT, mvnw, testDirs, commandLine>>
  /\ UNCHANGED exceptRun

\* lines 88-108 and 110-130: the suite of a language whose tests are kept
\* in tests/${TEST_TYPE}_tests/<language>
RunDirTests(language, next) ==
  /\ scriptPc = language
  /\ IF LANGUAGE \in {"all", language}
       THEN IF language \in testDirs
              THEN /\ suites' = Append(suites, Suite(language, "passed"))
                   /\ scriptPc' = next
                   /\ UNCHANGED exitStatus
              ELSE /\ suites' = Append(suites, Suite(language, "not found"))
                   /\ IF LANGUAGE = language
                        THEN Exit(1)
                        ELSE scriptPc' = next /\ UNCHANGED exitStatus
       ELSE /\ scriptPc' = next
            /\ UNCHANGED <<suites, exitStatus>>
  /\ UNCHANGED <<argv, LANGUAGE, TEST_TYPE, ENV, ENVIRONMENT, mvnw, testDirs, commandLine>>
  /\ UNCHANGED exceptRun

RunPythonTests == RunDirTests("python", "javascript")
RunJavaScriptTests == RunDirTests("javascript", "end")

\* lines 132-133
ExitZero ==
  /\ scriptPc = "end"
  /\ Exit(0)
  /\ UNCHANGED <<argv, LANGUAGE, TEST_TYPE, ENV, ENVIRONMENT, mvnw, testDirs, suites,
                 commandLine>>
  /\ UNCHANGED exceptRun

RunNext ==
  \/ SetDefaults
  \/ ParseArgument
  \/ RunJavaTests
  \/ RunPythonTests
  \/ RunJavaScriptTests
  \/ ExitZero

----------------------------------------------------------------------------
(* EnvLoader (Java): substitution of ${NAME} with java.util.regex.         *)
(* Matcher.appendReplacement reads its replacement string: a backslash     *)
(* escapes the next character and $ starts a group reference, $g for a     *)
(* numbered group and ${name} for a named one.                             *)

MaxJavaTokens == 2

\* the strings given to substituteEnvVars: up to MaxJavaTokens of these
\* pieces, one after the other
JavaTokens == { <<"$", "{", "A", "}">>, <<"A">>, <<"$">>, <<"{">>, <<"}">>, <<"$", "{">> }

RECURSIVE Flatten(_)
Flatten(ts) == IF ts = <<>> THEN <<>> ELSE Head(ts) \o Flatten(Tail(ts))

JavaStrings ==
  { Flatten(ts) : ts \in UNION {[1..n -> JavaTokens] : n \in 0..MaxJavaTokens} }

\* System.getenv(): the variable A unset, set to x, or set to $1
JavaEnvs ==
  { [n \in {} |-> <<>>],
    [n \in {<<"A">>} |-> <<"x">>],
    [n \in {<<"A">>} |-> <<"$", "1">>] }

\* the file at configPath: missing, or the string values of its document
JavaFiles ==
  { [exists |-> FALSE, strings |-> <<>>],
    [exists |-> TRUE, strings |-> << <<"A">> >>],
    [exists |-> TRUE, strings |-> << <<"A">>, <<"$", "{", "A", "}">> >>],
    [exists |-> TRUE, strings |-> << <<"$", "{", "A", "}", "A">>, <<"$", "A">> >>] }

NoJavaConfig == [null |-> TRUE, strings |-> <<>>]
NoJavaCall == [op |-> "none", value |-> <<>>, thrown |-> "", result |-> <<>>, cached |-> FALSE]

Returned(text) == [thrown |-> "", text |-> text]
Thrown(exception) == [thrown |-> exception, text |-> <<>>]

JavaLoaderInit ==
  /\ javaEnv \in JavaEnvs
  /\ javaFile \in JavaFiles
  /\ javaConfig = NoJavaConfig
  /\ javaCall = NoJavaCall

JavaLoaderUnused ==
  /\ javaEnv = [n \in {} |-> <<>>]
  /\ javaFile = [exists |-> FALSE, strings |-> <<>>]
  /\ javaConfig = NoJavaConfig
  /\ javaCall = NoJavaCall


Digits == {"0", "1", "2", "3", "4", "5", "6", "7", "8", "9"}
DigitValue(c) == CHOOSE n \in 0..9 : ToString(n) = c

\* the groups of envPattern: 0 is the match, 1 the name
groupCount == 1

\* Matcher.appendReplacement(sb, replacement): the text appended for the
\* replacement from position k on, or the exception thrown
RECURSIVE ExpandReplacement(_, _, _)
ExpandReplacement(replacement, k, groups) ==
  IF k > Len(replacement) THEN Returned(<<>>)
  ELSE IF replacement[k] = "\\"
    THEN IF k = Len(replacement)
           THEN Thrown("IllegalArgumentException")
           ELSE LET rest == ExpandReplacement(replacement, k + 2, groups)
                IN IF rest.thrown # "" THEN rest
                   ELSE Returned(<<replacement[k + 1]>> \o rest.text)
  ELSE IF replacement[k] = "$"
    THEN IF k = Len(replacement)
           THEN Thrown("IllegalArgumentException")
         ELSE IF replacement[k + 1] = "{"
           \* a named group: envPattern has none
           THEN Thrown("IllegalArgumentException")
         ELSE IF replacement[k + 1] \in Digits
           THEN LET first == DigitValue(replacement[k + 1])
                    \* a second digit is taken while the number stays a group
                    two == /\ k + 2 <= Len(replacement)
                           /\ replacement[k + 2] \in Digits
                           /\ first * 10 + DigitValue(replacement[k + 2]) <= groupCount
                    refNum == IF two THEN first * 10 + DigitValue(replacement[k + 2])
                              ELSE first
                    next == IF two THEN k + 3 ELSE k + 2
                IN IF first > groupCount
                     THEN Thrown("IndexOutOfBoundsException")
                     ELSE LET rest == ExpandReplacement(replacement, next, groups)
                          IN IF rest.thrown # "" THEN rest
                             ELSE Returned(groups[refNum + 1] \o rest.text)
         ELSE Thrown("IllegalArgumentException")
  ELSE LET rest == ExpandReplacement(replacement, k + 1, groups)
       IN IF rest.thrown # "" THEN rest
          ELSE Returned(<<replacement[k]>> \o rest.text)

appendReplacement(replacement, groups) == ExpandReplacement(replacement, 1, groups)

\* the index of the "}" that ends a match of \$\{([^}]+)\} starting at i,
\* 0 when there is no match at i
MatchEnd(value, i) ==
  IF /\ i + 3 <= Len(value)
     /\ value[i] = "$" /\ value[i + 1] = "{" /\ value[i + 2] # "}"
     /\ \E j \in (i + 3)..Len(value) : value[j] = "}"
    THEN CHOOSE j \in (i + 3)..Len(value) :
           value[j] = "}" /\ \A m \in (i + 3)..(j - 1) : value[m] # "}"
    ELSE 0

\* the while (matcher.find()) loop from position i on, then appendTail
RECURSIVE SubstituteJavaFrom(_, _, _)
SubstituteJavaFrom(value, i, env) ==
  IF i > Len(value) THEN Returned(<<>>)
  ELSE IF MatchEnd(value, i) = 0
    THEN LET rest == SubstituteJavaFrom(value, i + 1, env)
         IN IF rest.thrown # "" THEN rest ELSE Returned(<<value[i]>> \o rest.text)
    ELSE LET j == MatchEnd(value, i)
             group0 == SubSeq(value, i, j)
             envVarName == SubSeq(value, i + 2, j - 1)
             appended == IF envVarName \in DOMAIN env
                           THEN appendReplacement(env[envVarName], <<group0, envVarName>>)
                           ELSE appendReplacement(group0, <<group0, envVarName>>)
         IN IF appended.thrown # "" THEN appended
            ELSE LET rest == SubstituteJavaFrom(value, j + 1, env)
                 IN IF rest.thrown # "" THEN rest
                    ELSE Returned(appended.text \o rest.text)

\* EnvLoader.substituteEnvVars(value) as a function
SubstituteJava(value, env) == SubstituteJavaFrom(value, 1, env)

\* processEnvVars over the strings of the document: the first exception
\* ends it
RECURSIVE ProcessJavaStrings(_, _)
ProcessJavaStrings(strings, env) ==
  IF strings = <<>> THEN [thrown |-> "", strings |-> <<>>]
  ELSE LET first == SubstituteJava(Head(strings), env)
           rest == ProcessJavaStrings(Tail(strings), env)
       IN IF first.thrown # "" THEN [thrown |-> first.thrown, strings |-> <<>>]
          ELSE IF rest.thrown # "" THEN rest
          ELSE [thrown |-> "", strings |-> <<first.text>> \o rest.strings]

\* EnvLoader.substituteEnvVars(value)
substituteEnvVars(value) ==
  /\ LET r == SubstituteJava(value, javaEnv)
     IN javaCall' = [op |-> "substituteEnvVars", value |-> value, thrown |-> r.thrown,
                     result |-> r.text, cached |-> FALSE]
  /\ UNCHANGED <<javaEnv, javaFile, javaConfig>>
  /\ UNCHANGED exceptJavaLoader

\* EnvLoader.loadConfig()
EnvLoader_loadConfig ==
  /\ IF ~javaConfig.null
       THEN /\ javaCall' = [op |-> "loadConfig", value |-> <<>>, thrown |-> "",
                            result |-> <<>>, cached |-> TRUE]
            /\ UNCHANGED javaConfig
       ELSE IF ~javaFile.exists
         THEN /\ javaCall' = [op |-> "loadConfig", value |-> <<>>, thrown |-> "IOException",
                              result |-> <<>>, cached |-> FALSE]
              /\ UNCHANGED javaConfig
         ELSE LET r == ProcessJavaStrings(javaFile.strings, javaEnv)
              IN /\ javaCall' = [op |-> "loadConfig", value |-> <<>>, thrown |-> r.thrown,
                                 result |-> <<>>, cached |-> FALSE]
                 /\ javaConfig' = IF r.thrown = ""
                                    THEN [null |-> FALSE, strings |-> r.strings]
                                    ELSE javaConfig
  /\ UNCHANGED <<javaEnv, javaFile>>
  /\ UNCHANGED exceptJavaLoader

JavaLoaderNext ==
  \/ \E value \in JavaStrings : substituteEnvVars(value)
  \/ EnvLoader_loadConfig

----------------------------------------------------------------------------
(* BaseApiClient (Java, core/clients).  requestSpec is one RestAssured     *)
(* RequestSpecification made in the constructor and used by every call:    *)
(* header, headers, params and body change it and return it.  A header is  *)
(* added to the ones of the same name; only Accept and Content-Type are    *)
(* replaced (RestAssured's default HeaderConfig).                          *)

MaxSpecHeaders == 3
MaxSpecParams == 2

NoPairs == <<>>

\* the arguments of the verb calls; <<>> and "" stand for an argument the
\* overload does not have
JavaCallHeaders == { NoPairs, << <<"X-Trace", "1">> >>, << <<"Accept", "text/plain">> >> }
JavaCallParams == { NoPairs, << <<"page", "2">> >> }
JavaCallBodies == { "", "{}" }
JavaDefaultHeaders == { NoPairs, << <<"Accept", "application/json">> >> }

EmptySpec == [headers |-> <<>>, params |-> <<>>, body |-> ""]
NoJavaSent ==
  [op |-> "none", headers |-> <<>>, params |-> <<>>, body |-> "",
   given |-> [headers |-> <<>>, params |-> <<>>, body |-> ""],
   before |-> EmptySpec, after |-> EmptySpec, authOp |-> "none"]

\* new BaseApiClient(baseUrl, headers)
JavaClientInit ==
  /\ \E h \in JavaDefaultHeaders : requestSpec = [EmptySpec EXCEPT !.headers = h]
  /\ javaAuthOp = "none"
  /\ javaSent = NoJavaSent

JavaClientUnused ==
  /\ requestSpec = EmptySpec
  /\ javaAuthOp = "none"
  /\ javaSent = NoJavaSent


OverwrittenHeaders == {"Accept", "Content-Type"}

\* the pairs of a list whose name is not n
RECURSIVE WithoutName(_, _)
WithoutName(pairs, n) ==
  IF pairs = <<>> THEN <<>>
  ELSE IF Head(pairs)[1] = n THEN WithoutName(Tail(pairs), n)
  ELSE <<Head(pairs)>> \o WithoutName(Tail(pairs), n)

\* requestSpec.header(name, value)
header(spec, n, v) ==
  IF n \in OverwrittenHeaders
    THEN [spec EXCEPT !.headers = Append(WithoutName(@, n), <<n, v>>)]
    ELSE [spec EXCEPT !.headers = Append(@, <<n, v>>)]

\* requestSpec.headers(map)
RECURSIVE headersOf(_, _)
headersOf(spec, pairs) ==
  IF pairs = <<>> THEN spec
  ELSE headersOf(header(spec, Head(pairs)[1], Head(pairs)[2]), Tail(pairs))

\* requestSpec.params(map)
params(spec, pairs) == [spec EXCEPT !.params = @ \o pairs]

\* requestSpec.body(string)
body(spec, text) == [spec EXCEPT !.body = text]

\* get / post / put / delete / patch (endpoint[, params | body][, headers]):
\* lastResponse = requestSpec.params(p).body(b).headers(h).<verb>(path)
JavaRequest(method, p, b, h) ==
  /\ LET used == headersOf(IF b # "" THEN body(params(requestSpec, p), b)
                           ELSE params(requestSpec, p), h)
     IN /\ Len(used.headers) <= MaxSpecHeaders
        /\ Len(used.params) <= MaxSpecParams
        /\ requestSpec' = used
        /\ javaSent' = [op |-> method, headers |-> used.headers, params |-> used.params,
                        body |-> used.body,
                        given |-> [headers |-> h, params |-> p, body |-> b],
                        before |-> requestSpec, after |-> used,
                        authOp |-> javaAuthOp]
  /\ UNCHANGED javaAuthOp
  /\ UNCHANGED exceptJavaClient

Java_get(p, h) == JavaRequest("GET", p, "", h)
Java_post(b, h) == JavaRequest("POST", <<>>, b, h)

\* setAuthorization(authType, token)
Java_setAuthorization(authType, token) ==
  /\ Len(requestSpec.headers) < MaxSpecHeaders
  /\ requestSpec' = header(requestSpec, "Authorization", AuthorizationValue(authType, token))
  /\ javaAuthOp' = "set"
  /\ UNCHANGED javaSent
  /\ UNCHANGED exceptJavaClient

\* clearAuthorization()
Java_clearAuthorization ==
  /\ Len(requestSpec.headers) < MaxSpecHeaders
  /\ requestSpec' = header(requestSpec, "Authorization", "")
  /\ javaAuthOp' = "cleared"
  /\ UNCHANGED javaSent
  /\ UNCHANGED exceptJavaClient

JavaClientNext ==
  \/ \E p \in JavaCallParams, h \in JavaCallHeaders : Java_get(p, h)
  \/ \E b \in JavaCallBodies, h \in JavaCallHeaders : Java_post(b, h)
  \/ \E a \in AuthTypes, t \in Tokens : Java_setAuthorization(a, t)
  \/ Java_clearAuthorization

----------------------------------------------------------------------------
(* retryOnFailure: ApiTestUtils.retryOnFailure (JavaScript) and            *)
(* CommonHelpers.retryOnFailure (Java).  The error a call of func raises   *)
(* is named by the number of the call.                                     *)

MaxRetries == 2

RetriesArgs == -1..MaxRetries
DelayArgs == {-1, 0, 1}
BackoffArgs == {1, 2}
FuncResults == {"r1", "r2"}

NoRetryEnd == [how |-> "running", result |-> "", error |-> 0, exception |-> ""]

RetryInit ==
  /\ retryLang \in {"js", "java"}
  /\ retryArgs \in [retries : RetriesArgs, delay : DelayArgs, backoff : BackoffArgs]
  /\ retryCounter = 0
  /\ currentDelay = retryArgs.delay
  /\ retryPc = "loop"
  /\ funcCalls = <<>>
  /\ retryEnd = NoRetryEnd

RetryUnused ==
  /\ retryLang = "none"
  /\ retryArgs = [retries |-> 0, delay |-> 0, backoff |-> 1]
  /\ retryCounter = 0
  /\ currentDelay = 0
  /\ retryPc = "unused"
  /\ funcCalls = <<>>
  /\ retryEnd = NoRetryEnd

RestUnused == RunUnused /\ JavaLoaderUnused /\ JavaClientUnused /\ RetryUnused

\* a test that gives up one failure late
ExhaustedLate(count, limit) == count > limit + 1

\* if (retryCount > retries)
Exhausted(count, limit) == count > limit

\* the head of the loop: while (true) in JavaScript, while (retryCount <=
\* retries) in Java, whose exit ends in the RuntimeException below the loop;
\* in the loop func is called
InvokeFunc ==
  /\ retryPc = "loop"
  /\ IF retryLang = "java" /\ ~(retryCounter <= retryArgs.retries)
       THEN /\ retryPc' = "threw"
            /\ retryEnd' = [NoRetryEnd EXCEPT !.how = "threw",
                                              !.exception = "RuntimeException"]
       ELSE /\ retryPc' = "calling"
            /\ UNCHANGED retryEnd
  /\ UNCHANGED <<retryLang, retryArgs, retryCounter, currentDelay, funcCalls>>
  /\ UNCHANGED exceptRetry

\* func returns (its promise resolves): return await func() / return callable.call()
FuncReturns(result) ==
  /\ retryPc = "calling"
  /\ funcCalls' = Append(funcCalls, [ok |-> TRUE, result |-> result])
  /\ retryPc' = "returned"
  /\ retryEnd' = [NoRetryEnd EXCEPT !.how = "returned", !.result = result]
  /\ UNCHANGED <<retryLang, retryArgs, retryCounter, currentDelay>>
  /\ UNCHANGED exceptRetry

\* func fails and the catch block runs: count the failure, rethrow when the
\* retries are used up, else sleep.  Thread.sleep throws on a negative time
FuncThrows ==
  /\ retryPc = "calling"
  /\ funcCalls' = Append(funcCalls, [ok |-> FALSE, result |-> ""])
  /\ retryCounter' = retryCounter + 1
  /\ IF Exhausted(retryCounter + 1, retryArgs.retries)
       THEN /\ retryPc' = "threw"
            /\ retryEnd' = [NoRetryEnd EXCEPT !.how = "threw",
                                              !.error = Len(funcCalls) + 1]
       ELSE IF retryLang = "java" /\ currentDelay < 0
         THEN /\ retryPc' = "threw"
              /\ retryEnd' = [NoRetryEnd EXCEPT !.how = "threw",
                                                !.exception = "IllegalArgumentException"]
         ELSE /\ retryPc' = "sleeping"
              /\ UNCHANGED retryEnd
  /\ UNCHANGED <<retryLang, retryArgs, currentDelay>>
  /\ UNCHANGED exceptRetry

\* the delay is over: currentDelay *= backoff and the loop goes on
Wake ==
  /\ retryPc = "sleeping"
  /\ currentDelay' = currentDelay * retryArgs.backoff
  /\ retryPc' = "loop"
  /\ UNCHANGED <<retryLang, retryArgs, retryCounter, funcCalls, retryEnd>>
  /\ UNCHANGED exceptRetry

\* Thread.sleep is interrupted (Java)
Interrupted ==
  /\ retryPc = "sleeping"
  /\ retryLang = "java"
  /\ retryPc' = "threw"
  /\ retryEnd' = [NoRetryEnd EXCEPT !.how = "threw", !.exception = "InterruptedException"]
  /\ UNCHANGED <<retryLang, retryArgs, retryCounter, currentDelay, funcCalls>>
  /\ UNCHANGED exceptRetry

RetryNext ==
  \/ InvokeFunc
  \/ \E r \in FuncResults : FuncReturns(r)
  \/ FuncThrows
  \/ Wake
  \/ Interrupted

----------------------------------------------------------------------------
(* Specifications.                                                         *)

\* a client and its header set, authorization and verb calls
Init == ClientInit /\ UrlUnused /\ ConfigUnused /\ AssertUnused /\ ReporterUnused /\ RestUnused
Next == ClientNext
Spec == Init /\ [][Next]_vars

\* a client with two requests in flight and the readers of its last response
SpecInFlight == Init /\ [][InFlightNext]_vars

\* a client's base URL and the URLs it builds
InitUrl == ClientUnused /\ UrlInit /\ ConfigUnused /\ AssertUnused /\ ReporterUnused /\ RestUnused
SpecUrl == InitUrl /\ [][UrlNext]_vars

\* a ConfigLoader, the file it reads and the process environment
InitConfig == ClientUnused /\ UrlUnused /\ ConfigInit /\ AssertUnused /\ ReporterUnused /\ RestUnused
SpecConfig == InitConfig /\ [][ConfigNext]_vars

\* a ConfigLoader and the getters of test settings, reporting and mocks
SpecSettings == InitConfig /\ [][SettingsNext]_vars

\* a response and the assertions made about it
InitAssert == ClientUnused /\ UrlUnused /\ ConfigUnused /\ AssertInit /\ ReporterUnused /\ RestUnused
SpecAssert == InitAssert /\ [][AssertNext]_vars

InitJsonValues == ClientUnused /\ UrlUnused /\ ConfigUnused /\ JsonValuesInit /\ ReporterUnused /\ RestUnused
SpecJsonValues == InitJsonValues /\ [][JsonValuesNext]_vars

\* a reporter, the test it has open and the results sink
InitReporter == ClientUnused /\ UrlUnused /\ ConfigUnused /\ AssertUnused /\ ReporterInit /\ RestUnused
SpecReporter == InitReporter /\ [][ReporterNext]_vars

\* a reporter and the tests that are open on it
SpecContext == InitReporter /\ [][ContextNext]_vars

\* a reporter and the requests and responses logged with it
SpecApiLog == InitReporter /\ [][ApiLogNext]_vars

CoreUnused == ClientUnused /\ UrlUnused /\ ConfigUnused /\ AssertUnused /\ ReporterUnused

\* a Java EnvLoader, its file and the environment
InitJavaLoader ==
  CoreUnused /\ RunUnused /\ JavaLoaderInit /\ JavaClientUnused /\ RetryUnused
SpecJavaLoader == InitJavaLoader /\ [][JavaLoaderNext]_vars

\* a Java client, its request specification and the requests it sends
InitJavaClient ==
  CoreUnused /\ RunUnused /\ JavaLoaderUnused /\ JavaClientInit /\ RetryUnused
SpecJavaClient == InitJavaClient /\ [][JavaClientNext]_vars

\* one call of retryOnFailure
InitRetry == CoreUnused /\ RunUnused /\ JavaLoaderUnused /\ JavaClientUnused /\ RetryInit
SpecRetry == InitRetry /\ [][RetryNext]_vars

\* one run of run_tests.sh
InitRun == CoreUnused /\ RunInit /\ JavaLoaderUnused /\ JavaClientUnused /\ RetryUnused
SpecRun == InitRun /\ [][RunNext]_vars

----------------------------------------------------------------------------
(* Properties of BaseApiClient, checked under Spec.                        *)

IsErrorStatus(o) == o.kind = "response" /\ o.status \in 400..599
Is4xx(o) == o.kind = "response" /\ o.status \in 400..499
Is5xx(o) == o.kind = "response" /\ o.status \in 500..599
Is2xx(o) == o.kind = "response" /\ o.status \in 200..299

\* C1 (as stated): for every default header set, one that holds an
\* Authorization header included, setAuthorization directly followed by
\* clearAuthorization leaves the default header set as it was before.
C1_RoundTripRestoresHeaders ==
  roundTrip = "setclear" => headers = preSetHeaders

\* C1 (amended): setAuthorization directly followed by clearAuthorization
\* leaves every header other than Authorization as it was and leaves no
\* Authorization header; the set is restored exactly when it held no
\* Authorization header before.
C1_RoundTripRestoresOtherHeaders ==
  roundTrip = "setclear" =>
    /\ DOMAIN headers = (DOMAIN preSetHeaders) \ {"Authorization"}
    /\ \A k \in DOMAIN headers : headers[k] = preSetHeaders[k]
    /\ ("Authorization" \notin DOMAIN preSetHeaders => headers = preSetHeaders)

C1_Witness ==
  /\ roundTrip = "setclear"
  /\ preSetHeaders = [Accept |-> "application/json"]
  /\ headers = preSetHeaders

\* C2 (as stated): an attempt answered with a 4xx or 5xx status is never
\* followed by another attempt, whatever the verb, and the call ends at once.
C2_ErrorStatusNeverRetried ==
  \A c \in CallIds :
    /\ \A o \in calls[c].retried : ~IsErrorStatus(o)
    /\ (IsErrorStatus(calls[c].last) /\ calls[c].retried = {}
          => calls[c].pc = "done" /\ calls[c].attempts = 1)

\* C2 (amended): an attempt answered with a 4xx status is never followed by
\* another attempt, whatever the verb, and neither is one answered with a 5xx
\* status when the verb is POST or PATCH: the call ends at once.  A 5xx answer
\* to GET, PUT or DELETE is retried until 3 retries have been made.
C2_ClientErrorNeverRetried ==
  \A c \in CallIds :
    /\ \A o \in calls[c].retried :
         IsErrorStatus(o) => Is5xx(o) /\ calls[c].method \in {"get", "put", "delete"}
    /\ (Is4xx(calls[c].last) \/ (Is5xx(calls[c].last) /\ calls[c].method \in {"post", "patch"})
          => calls[c].pc = "done" /\ calls[c].how = "rejected")
    /\ (Is4xx(calls[c].last) /\ calls[c].retried = {} => calls[c].attempts = 1)
    /\ (Is5xx(calls[c].last) /\ calls[c].method \in {"post", "patch"} /\ calls[c].retried = {}
          => calls[c].attempts = 1)
    /\ (Is5xx(calls[c].last) /\ calls[c].method \in {"get", "put", "delete"}
          /\ calls[c].pc = "done" => calls[c].attempts = 4)

C2_Witness ==
  \E c \in CallIds :
    /\ calls[c].pc = "done" /\ calls[c].method = "post"
    /\ calls[c].last.status = 500 /\ calls[c].attempts = 1

\* C3 (as stated): a call makes at most limit+1 attempts, the limit being the
\* retry_attempts configured for the environment, and a transport failure is
\* raised only after the last of them.
C3_AttemptsWithinConfiguredLimit ==
  \A e \in Environments : \A c \in CallIds :
    /\ ((\A o \in calls[c].retried : o.kind = "failure")
          => calls[c].attempts <= getRetryAttempts(e) + 1)
    /\ (calls[c].pc = "done" /\ calls[c].last.code = "ECONNRESET"
          => calls[c].attempts = getRetryAttempts(e) + 1)

\* C3 (amended): a request that fails with a connection error (no response,
\* not a timeout, not a code on the no-retry list) is issued again until an
\* attempt ends otherwise or 3 retries have been made, 3 being the fixed limit
\* of the client whatever retry_attempts the environment configures; the
\* failure is raised only after the 4th attempt, a timeout is raised at
\* once, and no call makes more than 4 attempts.
C3_TransportFailureRetriedThreeTimes ==
  \A c \in CallIds :
    /\ calls[c].attempts <= 4
    /\ (calls[c].pc # "idle" => calls[c].attempts = calls[c].retryCount + 1)
    /\ (calls[c].last.kind = "failure" /\ calls[c].last.code = "ECONNRESET"
          /\ calls[c].pc = "done"
          => calls[c].attempts = 4 /\ calls[c].how = "rejected")
    /\ (calls[c].last.kind = "failure" /\ calls[c].last.code = "ECONNABORTED"
          => calls[c].pc = "done" /\ calls[c].how = "rejected")
    /\ \A o \in calls[c].retried : o.code # "ECONNABORTED"

C3_Witness ==
  \E c \in CallIds :
    /\ calls[c].pc = "done" /\ calls[c].how = "rejected"
    /\ calls[c].method = "post"
    /\ calls[c].last.code = "ECONNRESET"
    /\ calls[c].retried = {[kind |-> "failure", status |-> 0, code |-> "ECONNRESET"]}
    /\ calls[c].attempts = 4

\* C4: a verb call that ends with a 4xx/5xx response rejects with an error
\* whose response field holds that response, and the error reaches the caller
\* as axios raised it; a call that ends with a transport failure rejects with
\* an error that carries no response.
C4_ErrorCarriesResponse ==
  \A c \in CallIds :
    calls[c].pc = "done" =>
      /\ (IsErrorStatus(calls[c].last) =>
            /\ calls[c].how = "rejected"
            /\ calls[c].error.response.status = calls[c].last.status
            /\ calls[c].error.response.data = Body(calls[c].last.status)
            /\ calls[c].error = calls[c].raised)
      /\ (calls[c].last.kind = "failure" =>
            /\ calls[c].how = "rejected"
            /\ calls[c].error.response = Undefined
            /\ calls[c].error.code = calls[c].last.code
            /\ calls[c].error = calls[c].raised)

C4_Witness ==
  \E c \in CallIds :
    /\ calls[c].pc = "done" /\ calls[c].how = "rejected"
    /\ calls[c].last.status = 404
    /\ calls[c].error.response.status = 404

\* C5 (as stated): a verb call whose response status is in 400-599 returns
\* that response to the caller instead of raising.
C5_ErrorStatusReturned ==
  \A c \in CallIds :
    calls[c].pc = "done" /\ IsErrorStatus(calls[c].last) => calls[c].how = "returned"

\* C5 (amended): a verb call returns a response to the caller only when its
\* status is 2xx; a call whose final response status is in 400-599 raises, and
\* the caller reads that response from the error or from the client's last
\* response.
C5_OnlySuccessReturned ==
  \A c \in AwaitedCalls :
    calls[c].pc = "done" =>
      /\ (calls[c].how = "returned" <=> Is2xx(calls[c].last))
      /\ (calls[c].how = "returned" =>
            /\ calls[c].response.status = calls[c].last.status
            /\ lastResponse = calls[c].response)
      /\ (IsErrorStatus(calls[c].last) =>
            /\ calls[c].how = "rejected"
            /\ lastResponse.status = calls[c].last.status)

C5_Witness ==
  \E c \in AwaitedCalls :
    /\ calls[c].pc = "done" /\ calls[c].how = "rejected"
    /\ calls[c].method = "get"
    /\ calls[c].last.status = 500
    /\ lastResponse.status = 500

\* C7: after setAuthorization(scheme, token) the default header set holds
\* Authorization = "<scheme> <token>" and a call that does not override it
\* carries that header; after clearAuthorization() the default header set has
\* no Authorization key and a call that supplies none carries none.
C7_AuthorizationFollowsSetAndClear ==
  /\ (authOp.op = "set" =>
        /\ "Authorization" \in DOMAIN headers
        /\ headers["Authorization"] = authOp.authType \o " " \o authOp.token)
  /\ (authOp.op = "cleared" => "Authorization" \notin DOMAIN headers)
  /\ \A c \in CallIds :
       calls[c].pc # "idle" /\ "Authorization" \notin DOMAIN calls[c].perCall =>
         /\ (calls[c].auth = "set" =>
               /\ "Authorization" \in DOMAIN calls[c].sent
               /\ calls[c].sent["Authorization"] = calls[c].defaults["Authorization"])
         /\ (calls[c].auth = "cleared" => "Authorization" \notin DOMAIN calls[c].sent)

\* C8: the headers passed with a request are the default headers overlaid
\* with the per-call headers: every key of either set is present, and for a key
\* of both the per-call value is the one used.
C8_PerCallHeadersWin ==
  \A c \in CallIds :
    calls[c].pc # "idle" =>
      /\ DOMAIN calls[c].passed = (DOMAIN calls[c].defaults) \cup (DOMAIN calls[c].perCall)
      /\ \A k \in DOMAIN calls[c].passed :
           /\ (k \in DOMAIN calls[c].perCall => calls[c].passed[k] = calls[c].perCall[k])
           /\ (k \notin DOMAIN calls[c].perCall => calls[c].passed[k] = calls[c].defaults[k])
           /\ k \in DOMAIN calls[c].sent /\ calls[c].sent[k] = calls[c].passed[k]

C8_Witness ==
  \E c \in CallIds :
    /\ calls[c].pc # "idle"
    /\ calls[c].defaults = [Accept |-> "application/json", Authorization |-> "Bearer t1"]
    /\ calls[c].perCall = [Accept |-> "text/plain"]
    /\ calls[c].passed = [Accept |-> "text/plain", Authorization |-> "Bearer t1"]

----------------------------------------------------------------------------
(* Properties of the URLs the client builds, checked under SpecUrl.        *)

\* the URL is b/p with one "/" where they meet, b being the base URL without
\* its trailing slash and p the endpoint without its leading slash
JoinedWithOneSlash ==
  \E b \in UrlStrings, p \in UrlStrings :
    /\ url = b \o <<"/">> \o p
    /\ (b = baseUrlArg \/ b \o <<"/">> = baseUrlArg)
    /\ (p = endpoint \/ <<"/">> \o p = endpoint)
    /\ (Len(b) > 0 => b[Len(b)] # "/")
    /\ (Len(p) > 0 => p[1] # "/")

EndsWithTwoSlashes(s) == Len(s) >= 2 /\ s[Len(s)] = "/" /\ s[Len(s) - 1] = "/"
StartsWithTwoSlashes(s) == Len(s) >= 2 /\ s[1] = "/" /\ s[2] = "/"

\* C6 (as stated): for every base URL and every endpoint, the URL the client
\* builds has exactly one "/" where base and path meet and preserves every
\* other character of both.
C6_ExactlyOneSeparatingSlash ==
  urlBuilt => JoinedWithOneSlash

\* C6 (amended): for every base URL with at most one trailing slash and every
\* endpoint with at most one leading slash, the URL the client builds has
\* exactly one "/" where base and path meet and preserves every other
\* character of both; one slash at most is removed from each side, so further
\* slashes of the base URL or of the endpoint are kept next to the separator.
C6_OneSlashStrippedEachSide ==
  urlBuilt =>
    /\ (~EndsWithTwoSlashes(baseUrlArg) /\ ~StartsWithTwoSlashes(endpoint)
          => JoinedWithOneSlash)
    /\ \E b \in UrlStrings, p \in UrlStrings :
         /\ url = b \o <<"/">> \o p
         /\ (b = baseUrlArg \/ b \o <<"/">> = baseUrlArg)
         /\ (p = endpoint \/ <<"/">> \o p = endpoint)
         /\ Len(b) = Len(baseUrlArg) - (IF Len(baseUrlArg) > 0 /\ baseUrlArg[Len(baseUrlArg)] = "/" THEN 1 ELSE 0)
         /\ Len(p) = Len(endpoint) - (IF Len(endpoint) > 0 /\ endpoint[1] = "/" THEN 1 ELSE 0)

C6_Witness ==
  /\ urlBuilt
  /\ baseUrlArg = <<"a", "/">>
  /\ endpoint = <<"/", "a">>
  /\ url = <<"a", "/", "a">>

----------------------------------------------------------------------------
(* Properties of ConfigLoader, checked under SpecConfig.                   *)

\* C9: once loadConfig() has returned successfully, every later loadConfig()
\* returns that same configuration without reading the file or the
\* environment, whatever became of them in between; a loadConfig() that fails
\* caches nothing, and the next call reads the file again.
C9_FirstSuccessfulLoadIsCached ==
  /\ SameJson(_config, firstLoaded)
  /\ (lastCall.op = "loadConfig" =>
        /\ (lastCall.cached =>
              /\ lastCall.outcome = "returned"
              /\ ~lastCall.read
              /\ SameJson(lastCall.value, firstLoaded))
        /\ (~lastCall.cached => lastCall.read)
        /\ (lastCall.outcome = "threw" =>
              /\ ~lastCall.cached
              /\ lastCall.error \in {"ENOENT", "SyntaxError"}
              /\ firstLoaded.t = "null" /\ _config.t = "null"))

C9_Witness ==
  /\ lastCall.op = "loadConfig"
  /\ lastCall.cached /\ ~lastCall.read
  /\ lastCall.outcome = "returned"
  /\ SameJson(lastCall.value, firstLoaded)
  /\ configFile.kind = "malformed"
  /\ "A" \in DOMAIN processEnv
  /\ SameJson(Get(Get(Get(firstLoaded, "environments"), "dev"), "base_url"),
              JStr(<<"d", "$", "{", "A", "}">>))

\* C10: getEnvironmentConfig(env) uses the given name when one is given,
\* otherwise the value of ENVIRONMENT, otherwise "dev"; when the document is
\* loaded it returns config.environments[name] if that key is in the document
\* and fails with a not-found error, returning nothing, if it is not.
C10_EnvironmentResolved ==
  lastCall.op = "getEnvironmentConfig" /\ lastCall.error \notin {"ENOENT", "SyntaxError"} =>
    LET name == IF lastCall.arg # "" THEN lastCall.arg
                ELSE IF lastCall.envVar # Unset /\ lastCall.envVar # <<>>
                  THEN Str(lastCall.envVar)
                  ELSE "dev"
        present == /\ "environments" \in DOMAIN _config.v
                   /\ name \in DOMAIN _config.v["environments"].v
    IN /\ _config.t = "object"
       /\ (present =>
             /\ lastCall.outcome = "returned"
             /\ SameJson(lastCall.value, _config.v["environments"].v[name]))
       /\ (~present =>
             /\ lastCall.outcome = "threw"
             /\ lastCall.error = "NotFound"
             /\ lastCall.value.t = "undefined")

C10_Witness ==
  /\ lastCall.op = "getEnvironmentConfig"
  /\ lastCall.arg = ""
  /\ lastCall.envVar = <<"prod">>
  /\ lastCall.outcome = "returned"
  /\ SameJson(lastCall.value, _config.v["environments"].v["prod"])

----------------------------------------------------------------------------
(* Properties of the substitution, checked under SpecConfig and            *)
(* SpecSettings.                                                           *)

\* r is s with every ${NAME} replaced by value[NAME] when value has NAME and
\* left as it is when value has not; NAME is the text up to the next "}"
RECURSIVE ResolvedWith(_, _, _)
ResolvedWith(s, r, value) ==
  IF s = <<>> THEN r = <<>>
  ELSE LET j == IF Len(s) >= 2 /\ s[1] = "$" /\ s[2] = "{" THEN ClosingBrace(s, 3) ELSE 0
       IN IF j = 0
            THEN /\ Len(r) >= 1
                 /\ r[1] = s[1]
                 /\ ResolvedWith(Tail(s), Tail(r), value)
            ELSE LET name == Str(SubSeq(s, 3, j - 1))
                     text == IF name \in DOMAIN value THEN value[name] ELSE SubSeq(s, 1, j)
                 IN /\ Len(r) >= Len(text)
                    /\ SubSeq(r, 1, Len(text)) = text
                    /\ ResolvedWith(SubSeq(s, j + 1, Len(s)),
                                    SubSeq(r, Len(text) + 1, Len(r)), value)

\* every string value of src, at any depth, is found at the same place of out
\* and is resolved there with value
RECURSIVE StringsResolved(_, _, _)
StringsResolved(src, out, value) ==
  CASE src.t = "string" -> out.t = "string" /\ ResolvedWith(src.v, out.v, value)
    [] src.t = "object" ->
         /\ out.t = "object"
         /\ \A k \in DOMAIN src.v :
              k \in DOMAIN out.v /\ StringsResolved(src.v[k], out.v[k], value)
    [] src.t = "array" ->
         /\ out.t = "array"
         /\ \A i \in 1..Len(src.v) :
              i <= Len(out.v) /\ StringsResolved(src.v[i], out.v[i], value)
    [] OTHER -> TRUE

\* the text of one place of a loaded document
TextAt(doc, section, key, field) == Get(Get(Get(doc, section), key), field)

\* C11: a placeholder ${NAME} whose variable is not set in the process
\* environment stays in the resolved value as the literal ${NAME}, one whose
\* variable is set is replaced by the variable's value, and loadConfig()
\* succeeds whichever variables are set: it fails only when the file cannot
\* be read or parsed.
C11_UnsetPlaceholderKept ==
  /\ (lastCall.op = "loadConfig" /\ lastCall.outcome = "threw"
        => lastCall.read /\ lastCall.error \in {"ENOENT", "SyntaxError"})
  /\ (firstLoaded.t # "null"
        => StringsResolved(loadedFrom.doc, firstLoaded, loadedFrom.env))

C11_Witness ==
  /\ lastCall.op = "loadConfig" /\ lastCall.outcome = "returned" /\ lastCall.read
  /\ DOMAIN loadedFrom.env = {"A"}
  /\ loadedFrom.env["A"] = <<"x">>
  /\ TextAt(firstLoaded, "environments", "dev", "base_url").v = <<"d", "x">>
  /\ TextAt(firstLoaded, "mocks", "wiremock", "root_dir").v = <<"$", "{", "C", "}", "/", "m">>
  /\ Get(Get(firstLoaded, "environments"), "dev").v["hosts"].v[1].v = <<"$", "{", "B", "}">>

\* out has the shape of src: the same keys in every object, the same length
\* and order in every array; its strings are those of src resolved with
\* value, and its numbers, booleans and nulls are those of src
RECURSIVE SameShapeResolved(_, _, _)
SameShapeResolved(src, out, value) ==
  /\ out.t = src.t
  /\ CASE src.t = "object" ->
            /\ DOMAIN out.v = DOMAIN src.v
            /\ \A k \in DOMAIN src.v : SameShapeResolved(src.v[k], out.v[k], value)
       [] src.t = "array" ->
            /\ Len(out.v) = Len(src.v)
            /\ \A i \in 1..Len(src.v) : SameShapeResolved(src.v[i], out.v[i], value)
       [] src.t = "string" -> ResolvedWith(src.v, out.v, value)
       [] OTHER -> out.v = src.v

\* C12: the document loadConfig() caches has the shape of the parsed file,
\* with the same object keys and the same array lengths and element order;
\* every string value at any depth, in an object, in an array or in both, is
\* the string of the file with its placeholders substituted, and every
\* number, boolean and null is unchanged.
C12_ShapeKeptStringsSubstituted ==
  _config.t # "null" =>
    /\ SameJson(_config, firstLoaded)
    /\ SameShapeResolved(loadedFrom.doc, _config, loadedFrom.env)

C12_Witness ==
  /\ _config.t = "object"
  /\ "A" \in DOMAIN loadedFrom.env /\ loadedFrom.env["A"] = <<"x">>
  /\ LET src == TextAt(loadedFrom.doc, "test_settings", "security", "scan_levels")
         out == TextAt(_config, "test_settings", "security", "scan_levels")
     IN /\ src.t = "array" /\ out.t = "array" /\ Len(out.v) = 2
        /\ src.v[1].v = <<"$", "{", "A", "}">> /\ out.v[1].v = <<"x">>
        /\ out.v[2].v["level"].v = <<"$", "{", "C", "}", "x">>
  /\ LET hosts == TextAt(_config, "environments", "dev", "hosts")
     IN hosts.v[2].t = "null" /\ hosts.v[3].t = "boolean" /\ hosts.v[3].v = FALSE
  /\ TextAt(_config, "environments", "dev", "retry_attempts").v = 3

\* the section of the document a getter reads, and whether it takes a key
SectionOf(op) ==
  CASE op = "getTestSettings" -> "test_settings"
    [] op = "getMockConfig" -> "mocks"
    [] op = "getReportingConfig" -> "reporting"
    [] OTHER -> ""

\* C13: getTestSettings(type), getReportingConfig() and getMockConfig(type)
\* return the sub-tree of the loaded document at test_settings.<type>,
\* reporting and mocks.<type> when that key is in the document, and fail with
\* a not-found error, returning nothing, when the key or its section is not.
C13_SectionReturnedOrNotFound ==
  /\ lastCall.op \in {"getTestSettings", "getMockConfig", "getReportingConfig"}
  /\ lastCall.error \notin {"ENOENT", "SyntaxError"}
  =>
    LET section == SectionOf(lastCall.op)
        keyed == lastCall.op # "getReportingConfig"
        present == /\ section \in DOMAIN _config.v
                   /\ (keyed => lastCall.arg \in DOMAIN _config.v[section].v)
        subtree == IF keyed THEN _config.v[section].v[lastCall.arg] ELSE _config.v[section]
    IN /\ _config.t = "object"
       /\ (present =>
             /\ lastCall.outcome = "returned"
             /\ SameJson(lastCall.value, subtree))
       /\ (~present =>
             /\ lastCall.outcome = "threw"
             /\ lastCall.error = "NotFound"
             /\ lastCall.value.t = "undefined")

C13_Witness ==
  /\ lastCall.op = "getMockConfig"
  /\ lastCall.arg = "wiremock"
  /\ "mocks" \in DOMAIN _config.v
  /\ "wiremock" \notin DOMAIN _config.v["mocks"].v
  /\ lastCall.outcome = "threw"
  /\ lastCall.error = "NotFound"

\* the texts a variable of the environment can hold
EnvTexts == UNION {EnvValues[n] : n \in EnvNames}

\* C14: within one load every occurrence of a placeholder name, in one
\* string or in different strings of the document, is replaced by the same
\* value: there is one assignment of texts to names (a name without a text
\* keeps its placeholder) that accounts for every string of the loaded
\* document.
C14_SameNameSameValue ==
  firstLoaded.t # "null" =>
    \E names \in SUBSET EnvVarNames(loadedFrom.doc) :
      \E value \in [names -> EnvTexts] :
        StringsResolved(loadedFrom.doc, firstLoaded, value)

C14_Witness ==
  /\ firstLoaded.t = "object"
  /\ "A" \in DOMAIN loadedFrom.env /\ loadedFrom.env["A"] = <<"x">>
  /\ TextAt(loadedFrom.doc, "environments", "prod", "base_url").v
       = <<"$", "{", "A", "}", "$", "{", "A", "}">>
  /\ TextAt(firstLoaded, "environments", "prod", "base_url").v = <<"x", "x">>
  /\ TextAt(firstLoaded, "environments", "dev", "base_url").v = <<"d", "x">>
  /\ TextAt(firstLoaded, "test_settings", "security", "scan_levels").v[1].v = <<"x">>

----------------------------------------------------------------------------
(* Properties of ApiAssertions, checked under SpecAssert.                  *)

\* C15: assertJsonContentType(resp) holds if and only if resp has a header
\* whose name is content-type in any letter case and whose value contains
\* application/json in any letter case.
C15_JsonContentTypeAnyCase ==
  assertion.op = "assertJsonContentType" =>
    (assertion.outcome = "passed"
       <=> \E h \in DOMAIN response.headers :
             /\ toLowerCase(h) = content_type
             /\ includes(toLowerCase(response.headers[h]), application_json))

\* the elapsed time recorded for the response, -1 when none is recorded
RecordedTime ==
  LET t == Get(Get(response.config, "metadata"), "responseTime")
  IN IF t.t = "number" THEN t.v ELSE -1

\* C16: for every recorded elapsed time, 0 included, assertResponseTime(resp,
\* maxMs) holds if and only if the elapsed time is at most maxMs, and raises
\* an assertion failure when the elapsed time exceeds maxMs.
C16_ResponseTimeAtMost ==
  assertion.op = "assertResponseTime" /\ RecordedTime >= 0 =>
    /\ (assertion.outcome = "passed" <=> RecordedTime <= assertion.args)
    /\ (RecordedTime > assertion.args => assertion.outcome = "AssertionError")

\* C17: assertJsonValue(resp, key, expected) holds if and only if the parsed
\* body of resp has key at its top level and the value there is deeply equal
\* to expected, whatever other keys the body has.
C17_JsonValueOfBody ==
  assertion.op = "assertJsonValue" =>
    (assertion.outcome = "passed"
       <=> /\ response.data.t = "object"
           /\ assertion.args.key \in DOMAIN response.data.v
           /\ deepEqual(response.data.v[assertion.args.key], assertion.args.expectedValue))

\* C18: assertStatusCode(resp, expected) returns normally if and only if
\* resp.status equals expected; for every other status it raises an assertion
\* failure whose message names both the expected and the actual value.
C18_StatusCodeEquals ==
  assertion.op = "assertStatusCode" =>
    /\ (assertion.outcome = "passed" <=> response.status = assertion.args)
    /\ (response.status # assertion.args =>
          /\ assertion.outcome = "AssertionError"
          /\ assertion.message.expected = assertion.args
          /\ assertion.message.actual = response.status)

C18_Witness ==
  /\ assertion.op = "assertStatusCode"
  /\ response.status = 204 /\ assertion.args = 200
  /\ assertion.outcome = "AssertionError"
  /\ assertion.message = Message("expected #{act} to equal #{exp}", 204, 200)

\* C30: assertJsonValues(resp, keyValues) holds if and only if
\* assertJsonValue(resp, k, v) holds for every pair k: v of keyValues,
\* whatever the body of resp is, a body with a top-level key data included.
C30_JsonValuesIffEachValue ==
  assertion.op = "assertJsonValues" =>
    (assertion.outcome = "passed"
       <=> \A i \in DOMAIN assertion.args :
             JsonValueOutcome(ResponseObject(response), assertion.args[i][1],
                              assertion.args[i][2]).outcome = "passed")

----------------------------------------------------------------------------
(* Properties of AllureReporter, checked under SpecReporter and SpecApiLog. *)

\* C19: a test started on an enabled reporter while no other test is open
\* writes nothing to the results sink before endTest; endTest writes exactly
\* one test result, with the name given to startTest, the status given to
\* endTest and the steps and labels added in between in the order they were
\* added, and leaves no context open.
C19_OneResultAtEndTest ==
  testLog.clean =>
    /\ (testLog.phase = "open" =>
          /\ results = testLog.before
          /\ ~currentTest.null /\ currentTest.name = testLog.name)
    /\ (testLog.phase = "ended" =>
          /\ Len(results) = Len(testLog.before) + 1
          /\ SubSeq(results, 1, Len(testLog.before)) = testLog.before
          /\ results[Len(results)].name = testLog.name
          /\ results[Len(results)].status = testLog.status
          /\ results[Len(results)].steps = testLog.steps
          /\ results[Len(results)].labels = testLog.labels
          /\ currentTest.null /\ currentExecutable.null)

C19_Witness ==
  /\ enabled /\ testLog.clean /\ testLog.phase = "ended"
  /\ Len(results) = 1
  /\ results[1].name = "t2" /\ results[1].status = "failed"
  /\ results[1].steps = << StepResult("s2", "failed"), StepResult("GET /users", "passed") >>
  /\ results[1].labels = << [name |-> "tag", value |-> "smoke"],
                            [name |-> "suite", value |-> "users"] >>
  /\ currentTest.null

\* the sensitive header names, compared without regard to letter case
SensitiveNames ==
  {toLowerCase(Hdr_Authorization), toLowerCase(Hdr_X_API_Key), toLowerCase(Hdr_Cookie)}

IsHeaderAttachment(a) == a.name \in {"Request Headers", "Response Headers"}

\* the value of no sensitive header is in the text of a headers attachment
NoRawSensitiveValue(json) ==
  \A kv \in json :
    /\ (toLowerCase(kv[1]) \in SensitiveNames => kv[2] = HeaderValue(Mask))
    /\ \A n \in DOMAIN kv[2].headers :
         toLowerCase(n) \in SensitiveNames => kv[2].headers[n] = Mask

\* C20: every headers attachment addApiRequest or addApiResponse gives to
\* the sink has the value of each sensitive header (Authorization, X-API-Key,
\* Cookie, in any letter case) replaced by '*****' and everything else as the
\* caller gave it; no raw value of a sensitive header is in an attachment of
\* the sink, and the caller's headers object is as it was before the call.
C20_SensitiveHeadersMasked ==
  /\ \A i \in 1..Len(attachments) :
       IsHeaderAttachment(attachments[i]) =>
         NoRawSensitiveValue(attachments[i].content.json)
  /\ (callerHeaders.op # "none" =>
        /\ \A k \in DOMAIN callerHeaders.before :
             toLowerCase(k) \notin SensitiveNames =>
               <<k, callerHeaders.before[k]>> \in callerHeaders.persisted.json
        /\ \E i \in 1..Len(attachments) :
             /\ IsHeaderAttachment(attachments[i])
             /\ attachments[i].content = callerHeaders.persisted
        /\ callerHeaders.after = callerHeaders.before)

\* C27: one context is open at most, the one of the startTest called last;
\* the steps and labels added since that startTest are the ones it holds,
\* and no test that a startTest replaced is ever in the results sink.
C27_StartTestReplacesOpenTest ==
  /\ currentExecutable = currentTest
  /\ (~currentTest.null =>
        /\ currentTest.uuid = testLog.started
        /\ currentTest.name = testLog.name
        /\ currentTest.steps = testLog.steps
        /\ currentTest.labels = testLog.labels)
  /\ \A i \in 1..Len(results) :
       /\ results[i].uuid \notin testLog.replaced
       /\ (testLog.phase = "ended" /\ i = Len(results) =>
             /\ results[i].uuid = testLog.started
             /\ results[i].steps = testLog.steps
             /\ results[i].labels = testLog.labels)

\* a test with a step is replaced, and the test that replaced it is written
\* with the step added after the replacement only: both steps left their
\* details in the sink, one of them is in the result
C27_Witness ==
  /\ testLog.replaced = {1} /\ testLog.started = 2
  /\ testLog.phase = "ended"
  /\ Len(results) = 1 /\ results[1].uuid = 2
  /\ results[1].steps = << StepResult("s1", "passed") >>
  /\ results[1].labels = <<>>
  /\ Len(attachments) = 2
  /\ \A i \in 1..2 : attachments[i].name = "Step Details"

\* C28: an operation called while no test is open leaves the results sink
\* and the reporter as they are; an endTest repeated after a test has ended
\* leaves the one result that test wrote.
C28_NoContextNoEffect ==
  testLog.idle.op # "" =>
    /\ currentTest.null /\ currentExecutable.null
    /\ results = testLog.idle.results
    /\ attachments = testLog.idle.attachments
    /\ (testLog.phase = "ended" => Len(results) = Len(testLog.before) + 1)

\* endTest is called again after the test has ended
C28_Witness ==
  /\ enabled
  /\ testLog.phase = "ended" /\ testLog.idle.op = "endTest"
  /\ Len(results) = 1 /\ results[1].name = "t1" /\ results[1].status = "passed"

----------------------------------------------------------------------------
(* Properties of the last response, checked under SpecInFlight.            *)

\* C23: the last response is the response of the request that completed
\* most recently, and empty when none has completed or that request failed
\* without a response; the getters read from it and throw 'No response
\* available' exactly when it is empty.
C23_LastResponseIsLastCompleted ==
  /\ lastResponse = lastCompleted.response
  /\ (Falsy(lastResponse) <=>
        (lastCompleted.call = "" \/ lastCompleted.response = Undefined))
  /\ (lastRead.op # "none" =>
        /\ lastRead.from = lastRead.completed
        /\ (lastRead.outcome = "Error" <=> Falsy(lastRead.from))
        /\ (lastRead.outcome = "Error" =>
              lastRead.message = "No response available. Make a request first."))

\* two requests in flight together: the one issued first finishes last and
\* its response is the last response
C23_Witness ==
  /\ lastIssued = "c2"
  /\ calls["c2"].pc = "done" /\ calls["c2"].response = Response(200)
  /\ lastCompleted.call = "c1"
  /\ calls["c1"].pc = "done" /\ calls["c1"].how = "rejected"
  /\ lastResponse = Response(404)
  /\ lastRead.op = "getResponseStatusCode" /\ lastRead.from = Response(404)

----------------------------------------------------------------------------
(* Properties of run_tests.sh, checked under SpecRun.                      *)

\* the value given with the last -e/--env of the command line, "dev" when
\* the flag is absent
RECURSIVE EnvOption(_, _)
EnvOption(args, value) ==
  IF args = <<>> THEN value
  ELSE IF Head(args) \in {"-l", "--language", "-t", "--type", "-e", "--env"}
    THEN IF Len(args) >= 2
           THEN EnvOption(Tail(Tail(args)),
                          IF Head(args) \in {"-e", "--env"} THEN args[2] ELSE value)
           ELSE value
    ELSE EnvOption(Tail(args), value)

\* C21: at the moment a suite is started the exported ENVIRONMENT equals the
\* value given with -e/--env, and dev when the flag is absent.
C21_SuitesRunAgainstGivenEnv ==
  \A i \in 1..Len(suites) : suites[i].environment = EnvOption(commandLine, "dev")

SelectedSuites ==
  IF LANGUAGE = "all" THEN {"java", "python", "javascript"} ELSE {LANGUAGE}

\* C22: the script exits with 0 or 1, and with 0 exactly when every suite of
\* the selected language was started and passed.
C22_ExitZeroIffAllPassed ==
  scriptPc = "exited" =>
    /\ exitStatus \in {0, 1}
    /\ exitStatus = 0 <=>
         /\ \A i \in 1..Len(suites) : suites[i].outcome = "passed"
         /\ \A n \in SelectedSuites : \E i \in 1..Len(suites) : suites[i].suite = n

----------------------------------------------------------------------------
(* Properties of the Java EnvLoader, checked under SpecJavaLoader.         *)

\* the string has a placeholder whose variable is not in the environment
HasUnsetPlaceholder(value, env) ==
  \E i \in 1..Len(value) :
    /\ MatchEnd(value, i) # 0
    /\ SubSeq(value, i + 2, MatchEnd(value, i) - 1) \notin DOMAIN env

\* C24: substituteEnvVars on a string with a ${NAME} whose NAME is unset
\* throws nothing, and when no name of the string is set it returns the
\* string as it is; a loadConfig of a document with such a string succeeds.
C24_JavaUnsetPlaceholderKept ==
  /\ (javaCall.op = "substituteEnvVars" /\ HasUnsetPlaceholder(javaCall.value, javaEnv) =>
        /\ javaCall.thrown = ""
        /\ (DOMAIN javaEnv = {} => javaCall.result = javaCall.value))
  /\ (javaCall.op = "loadConfig" /\ javaFile.exists =>
        javaCall.thrown = "")

----------------------------------------------------------------------------
(* Properties of the Java BaseApiClient, checked under SpecJavaClient.     *)

HasHeaderNamed(pairs, n) == \E i \in 1..Len(pairs) : pairs[i][1] = n

\* C25: a request sent after clearAuthorization, with no setAuthorization in
\* between, carries no Authorization header.
C25_JavaClearedSendsNoAuthorization ==
  (javaSent.op # "none" /\ javaSent.authOp = "cleared") =>
    ~HasHeaderNamed(javaSent.headers, "Authorization")

\* C29: a verb call leaves the client's request specification as it was, so
\* the headers, parameters and body it was given are not sent by a later
\* call: a call given none of them sends no parameters, no body and the
\* headers the specification held before the call.
C29_JavaPerCallOnly ==
  javaSent.op # "none" =>
    /\ javaSent.after = javaSent.before
    /\ (javaSent.given = [headers |-> <<>>, params |-> <<>>, body |-> ""] =>
          /\ javaSent.params = <<>>
          /\ javaSent.body = "")

----------------------------------------------------------------------------
(* Properties of retryOnFailure, checked under SpecRetry.                  *)

AllFailed == \A i \in 1..Len(funcCalls) : ~funcCalls[i].ok

\* C26: with retries >= 0, in both helpers, func is called at most
\* retries + 1 times and one call at a time; no call follows a call that
\* succeeded, and the helper returns that call's result; when retries + 1
\* calls have failed the helper throws the error of the last call.
C26_RetryOnFailure ==
  retryArgs.retries >= 0 /\ retryLang \in {"js", "java"} =>
    /\ Len(funcCalls) <= retryArgs.retries + 1
    /\ (retryPc = "calling" => AllFailed)
    /\ \A i \in 1..Len(funcCalls) :
         funcCalls[i].ok =>
           /\ i = Len(funcCalls)
           /\ retryPc = "returned"
           /\ retryEnd.how = "returned" /\ retryEnd.result = funcCalls[i].result
    /\ (retryPc = "returned" => funcCalls # <<>> /\ funcCalls[Len(funcCalls)].ok)
    /\ (AllFailed /\ Len(funcCalls) = retryArgs.retries + 1 =>
          /\ retryPc = "threw"
          /\ retryEnd.how = "threw" /\ retryEnd.error = Len(funcCalls)
          /\ retryEnd.exception = "")

\* all three calls of a retryOnFailure with retries = 2 fail
C26_Witness ==
  /\ retryLang = "java" /\ retryArgs.retries = 2
  /\ Len(funcCalls) = 3 /\ AllFailed
  /\ retryPc = "threw" /\ retryEnd.error = 3

====
